---------------------------- MODULE Spec2Model ----------------------------
(***************************************************************************)
(* LaTeX normalization engine of server/mathml.ts.                         *)
(*                                                                         *)
(* A string is a sequence of one-character strings.  Positions are the     *)
(* 0-based offsets of the TypeScript source; At(s, i) is source[i] and     *)
(* Slice(s, a, b) is source.slice(a, b).  A reader's null result is the    *)
(* record Null; a successful result carries ok = TRUE and the fields of    *)
(* the matching TypeScript interface.                                      *)
(***************************************************************************)
EXTENDS Integers, Sequences, FiniteSets, TLC

VARIABLES
    parts,      \* the fragments the input string was built from
    absent,     \* TRUE when the caller passed null / undefined
    latex,      \* the input string of normalizeLatex / convertLatexToMathML
    pc,         \* position in the pipeline
    src,        \* the string the current pass scans
    index,      \* scan index of the current pass
    result,     \* output buffer of the current pass
    out1,       \* normalizeLatex(latex)
    out2,       \* normalizeLatex(normalizeLatex(latex))
    branch,     \* the branch the last loop iteration took
    passes,     \* how many passes (cleaner, rewriter, derivative) have run
    display,    \* the value isDisplayLatex(latex) returned
    mml,        \* convertLatexToMathML: compiler calls and returned markup
    srv,        \* one POST /api/ocr request in server/index.ts
    web,        \* one compressImage call of the front end
    ui          \* the state of App and the promises its handlers wait for

\* the variables of the LaTeX engine
engine == <<parts, absent, latex, pc, src, index, result, out1, out2,
            branch, passes, display, mml>>

vars == <<parts, absent, latex, pc, src, index, result, out1, out2,
          branch, passes, display, mml, srv, web, ui>>

-----------------------------------------------------------------------------
(* Characters and literals                                                 *)

Letters == {"a", "b", "c", "d", "e", "f", "g", "h", "i", "j", "k", "l", "m",
            "n", "o", "p", "q", "r", "s", "t", "u", "v", "w", "x", "y", "z",
            "A", "B", "C", "D", "E", "F", "G", "H", "I", "J", "K", "L", "M",
            "N", "O", "P", "Q", "R", "S", "T", "U", "V", "W", "X", "Y", "Z"}
Digits == {"0", "1", "2", "3", "4", "5", "6", "7", "8", "9"}

\* /\s/
IsSpace(c) == c \in {" ", "\t", "\n"}
\* /[a-zA-Z]/
IsLetter(c) == c \in Letters
\* \w of a JavaScript regular expression
IsWordChar(c) == c \in Letters \cup Digits \cup {"_"}

\* source[i] past either end is undefined; no character equals it.
UNDEF == "undefined"
Null == [ok |-> FALSE]

HSPACE0 == <<"\\", "h", "s", "p", "a", "c", "e", "{", "0", "p", "t", "}">>
PRESCRIPT == <<"\\", "p", "r", "e", "s", "c", "r", "i", "p", "t">>
MATHSTRUT == <<"\\", "m", "a", "t", "h", "s", "t", "r", "u", "t">>
OVERSET == <<"\\", "o", "v", "e", "r", "s", "e", "t">>
DOT == <<"\\", "d", "o", "t">>
DDOT == <<"\\", "d", "d", "o", "t">>
LIMITS == <<"\\", "l", "i", "m", "i", "t", "s">>
BM == <<"\\", "b", "m">>
MATHBF == <<"\\", "m", "a", "t", "h", "b", "f">>
TEXT == <<"\\", "t", "e", "x", "t">>
LEFT == <<"\\", "l", "e", "f", "t">>
RIGHT == <<"\\", "r", "i", "g", "h", "t">>
BIG == <<"\\", "b", "i", "g">>
BIGU == <<"\\", "B", "i", "g">>
BIGG == <<"\\", "b", "i", "g", "g">>
BIGGU == <<"\\", "B", "i", "g", "g">>
\* U+02D9 and U+00A8, each one character of the output
DOTGLYPH == "U+02D9"
DDOTGLYPH == "U+00A8"

At(s, i) == IF i >= 0 /\ i < Len(s) THEN s[i + 1] ELSE UNDEF

Min(a, b) == IF a < b THEN a ELSE b
Max(a, b) == IF a > b THEN a ELSE b

\* the element of a singleton set.  A value that the source computes once
\* and then uses several times is bound once, as the element x of {value}
Sole(S) == CHOOSE x \in S : TRUE

\* the least element of a set of positions, or -1 when it is empty
FirstOf(S) == IF S = {} THEN -1 ELSE CHOOSE x \in S : \A y \in S : x <= y

\* String.prototype.slice(a, b) for 0 <= a
Slice(s, a, b) == SubSeq(s, a + 1, Min(b, Len(s)))

\* String.prototype.startsWith(p, i)
StartsWith(s, p, i) ==
    /\ i + Len(p) <= Len(s)
    /\ \A k \in 1..Len(p) : s[i + k] = p[k]

EndsWith(s, p) == Len(s) >= Len(p) /\ StartsWith(s, p, Len(s) - Len(p))

\* while (cursor < length && /\s/.test(source[cursor])) cursor += 1
RECURSIVE SkipSpace(_, _)
SkipSpace(s, cursor) ==
    IF cursor < Len(s) /\ IsSpace(At(s, cursor))
    THEN SkipSpace(s, cursor + 1)
    ELSE cursor

RECURSIVE SkipLetters(_, _)
SkipLetters(s, cursor) ==
    IF cursor < Len(s) /\ IsLetter(At(s, cursor))
    THEN SkipLetters(s, cursor + 1)
    ELSE cursor

\* source.slice(cursor).match(/^\\[a-zA-Z]+/): the end of the command name,
\* or -1 when there is no match
CommandEnd(s, cursor) ==
    IF At(s, cursor) = "\\" /\ IsLetter(At(s, cursor + 1))
    THEN SkipLetters(s, cursor + 1)
    ELSE -1

\* String.prototype.trim()
RECURSIVE TrimLeft(_)
TrimLeft(s) ==
    IF s # <<>> /\ IsSpace(Head(s)) THEN TrimLeft(Tail(s)) ELSE s

RECURSIVE TrimRight(_)
TrimRight(s) ==
    IF s # <<>> /\ IsSpace(s[Len(s)])
    THEN TrimRight(SubSeq(s, 1, Len(s) - 1))
    ELSE s

Trim(s) == TrimRight(TrimLeft(s))

-----------------------------------------------------------------------------
(* Readers.  A value computed once in the source and used several times is  *)
(* passed on as a parameter of the operator that models the code after it.  *)

\* the for loop of readGroup without the branch for the backslash (a variant
\* the formula of C25 is tried against)
RECURSIVE GroupScanNoEscape(_, _, _, _)
GroupScanNoEscape(s, start, idx, depth) ==
    IF idx >= Len(s) THEN Null
    ELSE IF At(s, idx) = "{"
    THEN GroupScanNoEscape(s, start, idx + 1, depth + 1)
    ELSE IF At(s, idx) = "}" THEN
        IF depth - 1 = 0
        THEN [ok |-> TRUE, content |-> Slice(s, start + 1, idx), end |-> idx + 1]
        ELSE GroupScanNoEscape(s, start, idx + 1, depth - 1)
    ELSE GroupScanNoEscape(s, start, idx + 1, depth)

\* the for loop of readGroup, entered at idx with the given depth
RECURSIVE GroupScan(_, _, _, _)
GroupScan(s, start, idx, depth) ==
    IF idx >= Len(s) THEN Null
    ELSE IF At(s, idx) = "{" THEN GroupScan(s, start, idx + 1, depth + 1)
    ELSE IF At(s, idx) = "}" THEN
        IF depth - 1 = 0
        THEN [ok |-> TRUE, content |-> Slice(s, start + 1, idx), end |-> idx + 1]
        ELSE GroupScan(s, start, idx + 1, depth - 1)
    ELSE IF At(s, idx) = "\\" THEN GroupScan(s, start, idx + 2, depth)
    ELSE GroupScan(s, start, idx + 1, depth)

readGroup(s, start) ==
    IF At(s, start) # "{" THEN Null ELSE GroupScan(s, start, start, 0)

\* readScript once readGroup has returned group
ScriptFromGroup(indicator, group) ==
    IF ~group.ok THEN Null
    ELSE [ok |-> TRUE, type |-> indicator, value |-> group.content,
          end |-> group.end]

\* readScript once the command name at cursor is known to end at e
ScriptFromCommand(s, indicator, cursor, e) ==
    IF e < 0 THEN Null
    ELSE [ok |-> TRUE, type |-> indicator, value |-> Slice(s, cursor, e),
          end |-> e]

\* readScriptValue without the test for the end of the source (a variant the
\* formula of C3 is tried against)
readScriptValueNoEndTest(s, indicator, cursor) ==
    IF At(s, cursor) = "{"
    THEN Sole({ScriptFromGroup(indicator, group) :
                   group \in {readGroup(s, cursor)}})
    ELSE IF At(s, cursor) = "\\"
    THEN Sole({ScriptFromCommand(s, indicator, cursor, e) :
                   e \in {CommandEnd(s, cursor)}})
    ELSE [ok |-> TRUE, type |-> indicator, value |-> <<At(s, cursor)>>,
          end |-> cursor + 1]

\* the value readScript reads at cursor, after the indicator and whitespace
readScriptValue(s, indicator, cursor) ==
    IF cursor >= Len(s) THEN Null
    ELSE IF At(s, cursor) = "{"
    THEN Sole({ScriptFromGroup(indicator, group) :
                   group \in {readGroup(s, cursor)}})
    ELSE IF At(s, cursor) = "\\"
    THEN Sole({ScriptFromCommand(s, indicator, cursor, e) :
                   e \in {CommandEnd(s, cursor)}})
    ELSE [ok |-> TRUE, type |-> indicator, value |-> <<At(s, cursor)>>,
          end |-> cursor + 1]

readScript(s, start) ==
    IF At(s, start) # "_" /\ At(s, start) # "^" THEN Null
    ELSE Sole({readScriptValue(s, At(s, start), cursor) :
                   cursor \in {SkipSpace(s, start + 1)}})

WrapTrimmed(trimmed) ==
    IF trimmed = <<>> THEN <<"{", "}">>
    ELSE IF Head(trimmed) = "{" /\ trimmed[Len(trimmed)] = "}" THEN trimmed
    ELSE <<"{">> \o trimmed \o <<"}">>

wrapWithBraces(value) == Sole({WrapTrimmed(trimmed) : trimmed \in {Trim(value)}})

\* the while loop of collectAttachedScripts, entered with cursor and text
RECURSIVE CollectLoop(_, _, _)
RECURSIVE CollectScript(_, _, _, _, _)

CollectLoop(s, cursor, text) ==
    IF cursor >= Len(s) THEN [text |-> text, end |-> cursor]
    ELSE Sole({Sole({CollectScript(s, cursor, text, lookahead, script) :
                         script \in {readScript(s, lookahead)}}) :
                   lookahead \in {SkipSpace(s, cursor)}})

\* the loop body once lookahead and script are known
CollectScript(s, cursor, text, lookahead, script) ==
    IF ~script.ok THEN [text |-> text, end |-> cursor]
    ELSE Sole({CollectLoop(s, script.end, appended) :
                   appended \in {text \o Slice(s, cursor, lookahead)
                                      \o <<script.type>>
                                      \o wrapWithBraces(script.value)}})

collectAttachedScripts(s, start) == CollectLoop(s, start, <<>>)

\* LeadIn without the test of the character before a bare script indicator
\* (a variant the formula of C6 is tried against)
LeadInAnywhere(s, start) ==
    IF At(s, start) = "{" /\ At(s, start + 1) = "}"
    THEN SkipSpace(s, start + 2)
    ELSE IF At(s, start) = "^" \/ At(s, start) = "_" THEN start
    ELSE -1

\* the lead-in of matchLeftScripts: the cursor after it, or -1 for no match
LeadIn(s, start) ==
    IF At(s, start) = "{" /\ At(s, start + 1) = "}"
    THEN SkipSpace(s, start + 2)
    ELSE IF At(s, start) = "^" \/ At(s, start) = "_" THEN
        IF start > 0 /\ At(s, start - 1) \notin
               {" ", "\t", "\n", "(", "[", "{", "=", "+", "-", "*", "/"}
        THEN -1
        ELSE start
    ELSE -1

\* the value the loop over scripts leaves in sub (kind "_") or sup (kind "^"):
\* the last script of that kind
LastOfKind(kind, s1, s2) ==
    IF s2.ok /\ s2.type = kind THEN s2.value
    ELSE IF s1.type = kind THEN s1.value
    ELSE <<>>

\* matchLeftScripts after the first script s1, with cursor1 past the
\* whitespace that follows it and s2 the second readScript result
MatchScripts(s, s1, cursor1, s2) ==
    [ok |-> TRUE,
     sub |-> LastOfKind("_", s1, s2),
     sup |-> LastOfKind("^", s1, s2),
     nextIndex |-> IF s2.ok THEN SkipSpace(s, s2.end) ELSE cursor1]

MatchSecond(s, s1, cursor1) ==
    Sole({MatchScripts(s, s1, cursor1, s2) : s2 \in {readScript(s, cursor1)}})

MatchFirst(s, s1) ==
    IF ~s1.ok THEN Null
    ELSE Sole({MatchSecond(s, s1, cursor1) :
                   cursor1 \in {SkipSpace(s, s1.end)}})

MatchAfterLeadIn(s, cursor0) ==
    IF cursor0 < 0 THEN Null
    ELSE Sole({MatchFirst(s, s1) : s1 \in {readScript(s, cursor0)}})

matchLeftScripts(s, start) ==
    Sole({MatchAfterLeadIn(s, cursor0) : cursor0 \in {LeadIn(s, start)}})

\* readBaseToken's result for a command or group base that ends at end
BaseToken(s, start, cursor, end, scripts) ==
    [ok |-> TRUE, token |-> Slice(s, cursor, end) \o scripts.text,
     end |-> scripts.end, whitespace |-> Slice(s, start, cursor)]

BaseWithScripts(s, start, cursor, end) ==
    Sole({BaseToken(s, start, cursor, end, scripts) :
              scripts \in {collectAttachedScripts(s, end)}})

BaseAfterCommand(s, start, cursor, e, group) ==
    BaseWithScripts(s, start, cursor, IF group.ok THEN group.end ELSE e)

BaseCommand(s, start, cursor, e) ==
    IF e < 0 THEN Null
    ELSE Sole({BaseAfterCommand(s, start, cursor, e, group) :
                   group \in {IF At(s, e) = "{" THEN readGroup(s, e)
                              ELSE Null}})

BaseGroup(s, start, cursor, group) ==
    IF ~group.ok THEN Null ELSE BaseWithScripts(s, start, cursor, group.end)

\* readBaseToken's result for a single-character base
BaseChar(s, start, cursor, scripts) ==
    [ok |-> TRUE, token |-> <<At(s, cursor)>>, end |-> scripts.end,
     whitespace |-> Slice(s, start, cursor)]

\* readBaseToken with cursor past the leading whitespace
BaseAt(s, start, cursor) ==
    IF cursor >= Len(s) THEN Null
    ELSE IF At(s, cursor) = "\\"
    THEN Sole({BaseCommand(s, start, cursor, e) :
                   e \in {CommandEnd(s, cursor)}})
    ELSE IF At(s, cursor) = "{"
    THEN Sole({BaseGroup(s, start, cursor, group) :
                   group \in {readGroup(s, cursor)}})
    ELSE Sole({BaseChar(s, start, cursor, scripts) :
                   scripts \in {collectAttachedScripts(s, cursor + 1)}})

readBaseToken(s, start) ==
    Sole({BaseAt(s, start, cursor) : cursor \in {SkipSpace(s, start)}})

disallowed == {LEFT, RIGHT, BIG, BIGU, BIGG, BIGGU}

\* SkipTrimmed without the list of delimiter commands (a variant the formula
\* of C7 is tried against)
SkipTrimmedEmptyOnly(trimmed) == trimmed = <<>>

SkipTrimmed(trimmed) ==
    IF trimmed = <<>> THEN TRUE
    ELSE \E prefix \in disallowed : StartsWith(trimmed, prefix, 0)

shouldSkipBase(token) ==
    Sole({SkipTrimmed(trimmed) : trimmed \in {Trim(token)}})

\* detectDerivativeCommand without the test of the character after the
\* command name (a variant the formula of C8 is tried against)
detectDerivativeCommandAsPrefix(s, start) ==
    IF StartsWith(s, DDOT, start)
    THEN [ok |-> TRUE, order |-> 2, nextIndex |-> start + Len(DDOT)]
    ELSE IF StartsWith(s, DOT, start)
    THEN [ok |-> TRUE, order |-> 1, nextIndex |-> start + Len(DOT)]
    ELSE Null

detectDerivativeCommand(s, start) ==
    IF StartsWith(s, DDOT, start) /\ ~IsLetter(At(s, start + Len(DDOT)))
    THEN [ok |-> TRUE, order |-> 2, nextIndex |-> start + Len(DDOT)]
    ELSE IF StartsWith(s, DOT, start) /\ ~IsLetter(At(s, start + Len(DOT)))
    THEN [ok |-> TRUE, order |-> 1, nextIndex |-> start + Len(DOT)]
    ELSE Null

\* readDerivativeTarget's result for a target from cursor to end
TargetToken(s, cursor, end) ==
    [ok |-> TRUE, token |-> Slice(s, cursor, end), end |-> end,
     whitespace |-> <<>>]

TargetWithScripts(s, cursor, end) ==
    Sole({TargetToken(s, cursor, scripts.end) :
              scripts \in {collectAttachedScripts(s, end)}})

TargetAfterCommand(s, cursor, e, group) ==
    TargetWithScripts(s, cursor, IF group.ok THEN group.end ELSE e)

TargetCommand(s, cursor, e) ==
    IF e < 0 THEN Null
    ELSE Sole({TargetAfterCommand(s, cursor, e, group) :
                   group \in {IF At(s, e) = "{" THEN readGroup(s, e)
                              ELSE Null}})

TargetGroup(s, cursor, group) ==
    IF ~group.ok THEN Null ELSE TargetToken(s, cursor, group.end)

\* readDerivativeTarget with cursor past the leading whitespace
TargetAt(s, cursor) ==
    IF cursor >= Len(s) THEN Null
    ELSE IF At(s, cursor) = "{"
    THEN Sole({TargetGroup(s, cursor, group) :
                   group \in {readGroup(s, cursor)}})
    ELSE IF At(s, cursor) = "\\"
    THEN Sole({TargetCommand(s, cursor, e) : e \in {CommandEnd(s, cursor)}})
    ELSE TargetWithScripts(s, cursor, cursor + 1)

readDerivativeTarget(s, start) ==
    Sole({TargetAt(s, cursor) : cursor \in {SkipSpace(s, start)}})

-----------------------------------------------------------------------------
(* Environment / bold cleaner.  A global replace copies the text up to the  *)
(* leftmost match, writes the replacement and goes on after the match.      *)

\* a match of /\\limits\b/ at i
LimitsAt(s, i) ==
    StartsWith(s, LIMITS, i) /\ ~IsWordChar(At(s, i + Len(LIMITS)))

RECURSIVE RemoveLimits(_, _)
RECURSIVE RemoveLimitsAt(_, _, _)

\* latex.replace(/\\limits\b/g, ''), scanning from i
RemoveLimits(s, i) ==
    Sole({RemoveLimitsAt(s, i, k) :
              k \in {FirstOf({j \in i..(Len(s) - 1) : LimitsAt(s, j)})}})

\* the replace with its leftmost match at k (-1: no match left)
RemoveLimitsAt(s, i, k) ==
    IF k < 0 THEN Slice(s, i, Len(s))
    ELSE Slice(s, i, k) \o RemoveLimits(s, k + Len(LIMITS))

\* the position of the first "}" at or after i, or -1: the end of ([^}]*)
FindClose(s, i) == FirstOf({k \in i..(Len(s) - 1) : At(s, k) = "}"})

BraceClosed(open, close) ==
    IF close < 0 THEN Null ELSE [ok |-> TRUE, open |-> open, close |-> close]

BraceOpened(s, open) ==
    IF At(s, open) # "{" THEN Null
    ELSE BraceClosed(open, FindClose(s, open + 1))

\* a match of /\\cmd\s*{([^}]*)}/ at i: the positions of its "{" and "}"
BraceArg(s, cmd, i) ==
    IF ~StartsWith(s, cmd, i) THEN Null
    ELSE BraceOpened(s, SkipSpace(s, i + Len(cmd)))

\* the leftmost match of /\\cmd\s*{([^}]*)}/ at or after i, or -1
FirstBraceArg(s, cmd, i) ==
    FirstOf({k \in i..(Len(s) - 1) : BraceArg(s, cmd, k).ok})

RECURSIVE ReplaceBmGroup(_, _)
RECURSIVE ReplaceBmGroupAt(_, _, _)
RECURSIVE ReplaceBmGroupMatch(_, _, _, _)

\* result.replace(/\\bm\s*{([^}]*)}/g, (_m, content) => `\\mathbf{${content}}`)
ReplaceBmGroup(s, i) ==
    Sole({ReplaceBmGroupAt(s, i, k) : k \in {FirstBraceArg(s, BM, i)}})

ReplaceBmGroupAt(s, i, k) ==
    IF k < 0 THEN Slice(s, i, Len(s))
    ELSE Sole({ReplaceBmGroupMatch(s, i, k, m) : m \in {BraceArg(s, BM, k)}})

ReplaceBmGroupMatch(s, i, k, m) ==
    Slice(s, i, k) \o MATHBF \o <<"{">> \o Slice(s, m.open + 1, m.close)
        \o <<"}">> \o ReplaceBmGroup(s, m.close + 1)

\* the position of ([A-Za-z]) when /\\bm\s+([A-Za-z])/ matches at i, or -1
BmLetterPos(s, i, j) ==
    IF StartsWith(s, BM, i) /\ j > i + Len(BM) /\ IsLetter(At(s, j))
    THEN j ELSE -1

BmLetterAt(s, i) == BmLetterPos(s, i, SkipSpace(s, i + Len(BM)))

RECURSIVE ReplaceBmLetter(_, _)
RECURSIVE ReplaceBmLetterAt(_, _, _)
RECURSIVE ReplaceBmLetterMatch(_, _, _, _)

\* result.replace(/\\bm\s+([A-Za-z])/g, (_m, symbol) => `\\mathbf{${symbol}}`)
ReplaceBmLetter(s, i) ==
    Sole({ReplaceBmLetterAt(s, i, k) :
              k \in {FirstOf({j \in i..(Len(s) - 1) : BmLetterAt(s, j) >= 0})}})

ReplaceBmLetterAt(s, i, k) ==
    IF k < 0 THEN Slice(s, i, Len(s))
    ELSE Sole({ReplaceBmLetterMatch(s, i, k, j) : j \in {BmLetterAt(s, k)}})

ReplaceBmLetterMatch(s, i, k, j) ==
    Slice(s, i, k) \o MATHBF \o <<"{", At(s, j), "}">>
        \o ReplaceBmLetter(s, j + 1)

\* content.replace(/\s+/g, ' ')
RECURSIVE CollapseSpace(_)
CollapseSpace(s) ==
    IF s = <<>> THEN <<>>
    ELSE IF IsSpace(Head(s))
    THEN <<" ">> \o CollapseSpace(SubSeq(s, SkipSpace(s, 0) + 1, Len(s)))
    ELSE <<Head(s)>> \o CollapseSpace(Tail(s))

\* the callback of the \text replacement
NormalizeText(content) ==
    TEXT \o <<"{">> \o Trim(CollapseSpace(content)) \o <<"}">>

RECURSIVE ReplaceText(_, _)
RECURSIVE ReplaceTextAt(_, _, _)
RECURSIVE ReplaceTextMatch(_, _, _, _)

\* result.replace(/\\text\s*{([^}]*)}/g, ...)
ReplaceText(s, i) ==
    Sole({ReplaceTextAt(s, i, k) : k \in {FirstBraceArg(s, TEXT, i)}})

ReplaceTextAt(s, i, k) ==
    IF k < 0 THEN Slice(s, i, Len(s))
    ELSE Sole({ReplaceTextMatch(s, i, k, m) : m \in {BraceArg(s, TEXT, k)}})

ReplaceTextMatch(s, i, k, m) ==
    Slice(s, i, k) \o NormalizeText(Slice(s, m.open + 1, m.close))
        \o ReplaceText(s, m.close + 1)

\* the four replacements, each applied to the result of the one before
cleanEnvironments(s) ==
    Sole({ReplaceText(boldLetters, 0) :
              boldLetters \in {ReplaceBmLetter(boldGroups, 0) :
                  boldGroups \in {ReplaceBmGroup(noLimits, 0) :
                      noLimits \in {RemoveLimits(s, 0)}}}})

-----------------------------------------------------------------------------
(* One iteration of each scan loop: the text appended to result, the next   *)
(* index and the branch taken                                               *)

\* subValue and supValue
OrMathstrut(value) == IF value = <<>> THEN MATHSTRUT ELSE value

\* LeftScriptsBase whose nobase branch keeps the index where it was (a
\* variant the formula of C4 is tried against)
LeftScriptsBaseNoAdvance(s, i, match, base) ==
    IF ~base.ok
    THEN [emit |-> <<>>, next |-> i, branch |-> "nobase"]
    ELSE IF shouldSkipBase(base.token)
    THEN [emit |-> Slice(s, i, base.end), next |-> base.end,
          branch |-> "skip"]
    ELSE [emit |-> base.whitespace \o HSPACE0 \o PRESCRIPT
                       \o wrapWithBraces(OrMathstrut(match.sup))
                       \o wrapWithBraces(OrMathstrut(match.sub))
                       \o wrapWithBraces(base.token),
          next |-> base.end, branch |-> "rewrite"]

\* the body of the while loop of rewriteLeftScripts once match and base are
\* known
LeftScriptsBase(s, i, match, base) ==
    IF ~base.ok
    THEN [emit |-> Slice(s, i, match.nextIndex), next |-> match.nextIndex,
          branch |-> "nobase"]
    ELSE IF shouldSkipBase(base.token)
    THEN [emit |-> Slice(s, i, base.end), next |-> base.end,
          branch |-> "skip"]
    ELSE [emit |-> base.whitespace \o HSPACE0 \o PRESCRIPT
                       \o wrapWithBraces(OrMathstrut(match.sup))
                       \o wrapWithBraces(OrMathstrut(match.sub))
                       \o wrapWithBraces(base.token),
          next |-> base.end, branch |-> "rewrite"]

LeftScriptsMatch(s, i, match) ==
    IF match.ok
    THEN Sole({LeftScriptsBase(s, i, match, base) :
                   base \in {readBaseToken(s, match.nextIndex)}})
    ELSE [emit |-> <<At(s, i)>>, next |-> i + 1, branch |-> "copy"]

\* the body of the while loop of rewriteLeftScripts at index i
LeftScriptsIteration(s, i) ==
    Sole({LeftScriptsMatch(s, i, match) : match \in {matchLeftScripts(s, i)}})

DerivativesTarget(s, i, derivative, target) ==
    IF target.ok
    THEN [emit |-> OVERSET
                       \o <<"{", IF derivative.order = 1 THEN DOTGLYPH
                                 ELSE DDOTGLYPH, "}">>
                       \o wrapWithBraces(target.token),
          next |-> target.end, branch |-> "overset"]
    ELSE [emit |-> <<At(s, i)>>, next |-> i + 1, branch |-> "notarget"]

DerivativesCommand(s, i, derivative) ==
    IF derivative.ok
    THEN Sole({DerivativesTarget(s, i, derivative, target) :
                   target \in {readDerivativeTarget(s, derivative.nextIndex)}})
    ELSE [emit |-> <<At(s, i)>>, next |-> i + 1, branch |-> "copy"]

\* the body of the while loop of normalizeDerivatives at index i
DerivativesIteration(s, i) ==
    Sole({DerivativesCommand(s, i, derivative) :
              derivative \in {detectDerivativeCommand(s, i)}})

-----------------------------------------------------------------------------
(* The passes as functions                                                 *)

RECURSIVE LeftScriptsLoop(_, _)
RECURSIVE LeftScriptsFrom(_, _, _)
RECURSIVE LeftScriptsEmit(_, _, _, _)

\* the while loop of rewriteLeftScripts from index i: the iterations up to
\* the next left-script match copy one character each
LeftScriptsLoop(s, i) ==
    Sole({LeftScriptsFrom(s, i, k) :
              k \in {FirstOf({j \in i..(Len(s) - 1) :
                                 matchLeftScripts(s, j).ok})}})

LeftScriptsFrom(s, i, k) ==
    IF k < 0 THEN Slice(s, i, Len(s))
    ELSE Sole({LeftScriptsEmit(s, i, k, it) :
                   it \in {LeftScriptsIteration(s, k)}})

LeftScriptsEmit(s, i, k, it) ==
    Slice(s, i, k) \o it.emit \o LeftScriptsLoop(s, it.next)

rewriteLeftScripts(s) == LeftScriptsLoop(s, 0)

RECURSIVE DerivativesLoop(_, _)
RECURSIVE DerivativesFrom(_, _, _)
RECURSIVE DerivativesEmit(_, _, _, _)

\* the while loop of normalizeDerivatives from index i: the iterations up to
\* the next derivative command copy one character each
DerivativesLoop(s, i) ==
    Sole({DerivativesFrom(s, i, k) :
              k \in {FirstOf({j \in i..(Len(s) - 1) :
                                 detectDerivativeCommand(s, j).ok})}})

DerivativesFrom(s, i, k) ==
    IF k < 0 THEN Slice(s, i, Len(s))
    ELSE Sole({DerivativesEmit(s, i, k, it) :
                   it \in {DerivativesIteration(s, k)}})

DerivativesEmit(s, i, k, it) ==
    Slice(s, i, k) \o it.emit \o DerivativesLoop(s, it.next)

normalizeDerivatives(s) == DerivativesLoop(s, 0)

\* normalizeLatexCall without the guard for an absent or empty argument (a
\* variant the formula of C5 is tried against)
normalizeLatexCallUnguarded(isAbsent, s) ==
    [out |-> Sole({normalizeDerivatives(leftScripted) :
                       leftScripted \in {rewriteLeftScripts(cleaned) :
                           cleaned \in {cleanEnvironments(s)}}}),
     passes |-> 3]

\* normalizeLatex for an argument that is absent (null, undefined) or the
\* string s: the string returned and the number of passes run
normalizeLatexCall(isAbsent, s) ==
    IF isAbsent \/ s = <<>> THEN [out |-> <<>>, passes |-> 0]
    ELSE [out |-> Sole({normalizeDerivatives(leftScripted) :
                            leftScripted \in {rewriteLeftScripts(cleaned) :
                                cleaned \in {cleanEnvironments(s)}}}),
          passes |-> 3]

normalizeLatex(s) == normalizeLatexCall(FALSE, s).out

\* /\\begin|\\\\|\n|\\dfrac|\\displaystyle|\\int|\\sum/.test(latex)
DisplayCues ==
    { <<"\\", "b", "e", "g", "i", "n">>, <<"\\", "\\">>, <<"\n">>,
      <<"\\", "d", "f", "r", "a", "c">>,
      <<"\\", "d", "i", "s", "p", "l", "a", "y", "s", "t", "y", "l", "e">>,
      <<"\\", "i", "n", "t">>, <<"\\", "s", "u", "m">> }

isDisplayLatexCall(isAbsent, s) ==
    IF isAbsent \/ s = <<>> THEN FALSE
    ELSE \E cue \in DisplayCues : \E i \in 0..(Len(s) - 1) : StartsWith(s, cue, i)

isDisplayLatex(s) == isDisplayLatexCall(FALSE, s)

-----------------------------------------------------------------------------
(* MathML postprocessor                                                    *)

XMLNS_ATTR == <<" ", "x", "m", "l", "n", "s", "=", "\"", "h", "t", "t", "p",
    ":", "/", "/", "w", "w", "w", ".", "w", "3", ".", "o", "r", "g", "/",
    "1", "9", "9", "8", "/", "M", "a", "t", "h", "/", "M", "a", "t", "h",
    "M", "L", "\"">>
XMLNS_EQ == <<"x", "m", "l", "n", "s", "=">>
MATH_OPEN == <<"<", "m", "a", "t", "h">>
MOVER_OPEN == <<"<", "m", "o", "v", "e", "r">>
MOVER_CLOSE == <<"<", "/", "m", "o", "v", "e", "r", ">">>
MO_OPEN == <<"<", "m", "o">>
MO_CLOSE == <<"<", "/", "m", "o", ">">>
ACCENT_TRUE == <<" ", "a", "c", "c", "e", "n", "t", "=", "\"", "t", "r",
    "u", "e", "\"">>
ACCENT == <<"a", "c", "c", "e", "n", "t">>
NONE_OPEN == <<"<", "n", "o", "n", "e">>
ZWSP_MTEXT == <<"<", "m", "t", "e", "x", "t", ">", "&", "#", "x", "2", "0",
    "0", "B", ";", "<", "/", "m", "t", "e", "x", "t", ">">>
MROW_OPEN == <<"<", "m", "r", "o", "w">>
MROW_CLOSE == <<"<", "/", "m", "r", "o", "w", ">">>
MTD_OPEN == <<"<", "m", "t", "d">>
MTD_CLOSE == <<"<", "/", "m", "t", "d", ">">>
MTEXT_OPEN == <<"<", "m", "t", "e", "x", "t">>
MTEXT_CLOSE == <<"<", "/", "m", "t", "e", "x", "t", ">">>
A_display == <<"d", "i", "s", "p", "l", "a", "y">>
A_indentalign == <<"i", "n", "d", "e", "n", "t", "a", "l", "i", "g", "n">>
A_indentshift == <<"i", "n", "d", "e", "n", "t", "s", "h", "i", "f", "t">>
A_indentalignfirst == <<"i", "n", "d", "e", "n", "t", "a", "l", "i", "g",
    "n", "f", "i", "r", "s", "t">>
A_indentalignlast == <<"i", "n", "d", "e", "n", "t", "a", "l", "i", "g",
    "n", "l", "a", "s", "t">>
A_indenttarget == <<"i", "n", "d", "e", "n", "t", "t", "a", "r", "g", "e",
    "t">>
E_02D9 == <<"&", "#", "x", "0", "2", "D", "9", ";">>
E_00A8 == <<"&", "#", "x", "0", "0", "A", "8", ";">>
E_Dot == <<"&", "D", "o", "t", ";">>
E_DoubleDot == <<"&", "D", "o", "u", "b", "l", "e", "D", "o", "t", ";">>

\* the position of the first occurrence of character c at or after i, or -1
FindChar(s, c, i) ==
    LET hits == {k \in i..(Len(s) - 1) : At(s, k) = c} IN
    FirstOf(hits)

\* String.prototype.indexOf(p, i), or -1
IndexOf(s, p, i) ==
    LET hits == {k \in i..(Len(s) - 1) : StartsWith(s, p, k)} IN
    FirstOf(hits)

\* the lookahead [^>]*xmlns= at position i
DeclaresNamespace(s, i) ==
    LET gt == FindChar(s, ">", i)
        limit == IF gt < 0 THEN Len(s) ELSE gt
        at == IndexOf(s, XMLNS_EQ, i)
    IN  at >= 0 /\ at + Len(XMLNS_EQ) <= limit

\* the first match of /<math(?![^>]*xmlns=)/ at or after i, or -1
FindBareMath(s, i) ==
    LET hits == {k \in i..(Len(s) - 1) :
                     /\ StartsWith(s, MATH_OPEN, k)
                     /\ ~DeclaresNamespace(s, k + Len(MATH_OPEN))} IN
    FirstOf(hits)

\* the namespace attribute inserted after the first <math whatever the tag
\* declares (a variant the formula of C12 is tried against)
ensureMathNamespaceAlways(s) ==
    LET i == IndexOf(s, MATH_OPEN, 0) IN
    IF i < 0 THEN s
    ELSE Slice(s, 0, i + Len(MATH_OPEN)) \o XMLNS_ATTR
             \o Slice(s, i + Len(MATH_OPEN), Len(s))

ensureMathNamespace(s) ==
    LET i == FindBareMath(s, 0) IN
    IF i < 0 THEN s
    ELSE Slice(s, 0, i + Len(MATH_OPEN)) \o XMLNS_ATTR
             \o Slice(s, i + Len(MATH_OPEN), Len(s))

DotGlyphs == {<<DOTGLYPH>>, <<DDOTGLYPH>>, E_02D9, E_00A8, E_Dot, E_DoubleDot}

\* dotPattern.test(content)
HasDotOperator(content) ==
    \E k \in 0..(Len(content) - 1) :
        /\ StartsWith(content, MO_OPEN, k)
        /\ LET gt == FindChar(content, ">", k + Len(MO_OPEN)) IN
           /\ gt >= 0
           /\ \E g \in DotGlyphs :
                  /\ StartsWith(content, g, gt + 1)
                  /\ StartsWith(content, MO_CLOSE, gt + 1 + Len(g))

\* /\saccent\s*=/.test(attrs)
DeclaresAccent(attrs) ==
    \E k \in 0..(Len(attrs) - 1) :
        /\ IsSpace(At(attrs, k))
        /\ StartsWith(attrs, ACCENT, k + 1)
        /\ At(attrs, SkipSpace(attrs, k + 1 + Len(ACCENT))) = "="

\* a match of /<mover([^>]*)>([\s\S]*?)<\/mover>/ at i
MoverMatch(s, i) ==
    IF ~StartsWith(s, MOVER_OPEN, i) THEN Null
    ELSE
        LET gt == FindChar(s, ">", i + Len(MOVER_OPEN)) IN
        IF gt < 0 THEN Null
        ELSE
            LET close == IndexOf(s, MOVER_CLOSE, gt + 1) IN
            IF close < 0 THEN Null
            ELSE [ok |-> TRUE,
                  attrs |-> Slice(s, i + Len(MOVER_OPEN), gt),
                  content |-> Slice(s, gt + 1, close),
                  end |-> close + Len(MOVER_CLOSE)]

RECURSIVE MoverLoop(_, _)
MoverLoop(s, i) ==
    LET hits == {k \in i..(Len(s) - 1) : MoverMatch(s, k).ok} IN
    IF hits = {} THEN Slice(s, i, Len(s))
    ELSE
        LET k == FirstOf(hits)
            m == MoverMatch(s, k)
        IN  IF ~HasDotOperator(m.content) \/ DeclaresAccent(m.attrs)
            THEN Slice(s, i, m.end) \o MoverLoop(s, m.end)
            ELSE Slice(s, i, k) \o MOVER_OPEN \o m.attrs \o ACCENT_TRUE
                     \o <<">">> \o m.content \o MOVER_CLOSE
                     \o MoverLoop(s, m.end)

enforceMoverAccents(s) == MoverLoop(s, 0)

\* mathml.replace(/<none\s*\/>/g, '<mtext>&#x200B;</mtext>')
NoneAt(s, i) ==
    /\ StartsWith(s, NONE_OPEN, i)
    /\ StartsWith(s, <<"/", ">">>, SkipSpace(s, i + Len(NONE_OPEN)))

RECURSIVE replaceNoneLoop(_, _)
replaceNoneLoop(s, i) ==
    LET hits == {k \in i..(Len(s) - 1) : NoneAt(s, k)} IN
    IF hits = {} THEN Slice(s, i, Len(s))
    ELSE LET k == FirstOf(hits)
         IN  Slice(s, i, k) \o ZWSP_MTEXT
                 \o replaceNoneLoop(s, SkipSpace(s, k + Len(NONE_OPEN)) + 2)

replaceNonePlaceholders(s) == replaceNoneLoop(s, 0)

\* a match of /<tag\b[^>]*>\s*<\/tag>/ at i: its end, or -1
EmptyElementEnd(s, open, close, i) ==
    IF ~(StartsWith(s, open, i) /\ ~IsWordChar(At(s, i + Len(open)))) THEN -1
    ELSE
        LET gt == FindChar(s, ">", i + Len(open)) IN
        IF gt < 0 THEN -1
        ELSE
            LET j == SkipSpace(s, gt + 1) IN
            IF StartsWith(s, close, j) THEN j + Len(close) ELSE -1

RECURSIVE ReplaceEmpty(_, _, _, _, _)
ReplaceEmpty(s, open, close, with, i) ==
    LET hits == {k \in i..(Len(s) - 1) :
                     EmptyElementEnd(s, open, close, k) >= 0} IN
    IF hits = {} THEN Slice(s, i, Len(s))
    ELSE LET k == FirstOf(hits)
         IN  Slice(s, i, k) \o with
                 \o ReplaceEmpty(s, open, close, with,
                                 EmptyElementEnd(s, open, close, k))

removeEmptyNodes(s) ==
    LET noRows == ReplaceEmpty(s, MROW_OPEN, MROW_CLOSE, <<>>, 0)
        noCells == ReplaceEmpty(noRows, MTD_OPEN, MTD_CLOSE, <<>>, 0)
    IN  ReplaceEmpty(noCells, MTEXT_OPEN, MTEXT_CLOSE, ZWSP_MTEXT, 0)

UnsupportedAttributes ==
    {A_display, A_indentalign, A_indentshift, A_indentalignfirst,
     A_indentalignlast, A_indenttarget}

\* a match of /\s+(?:display|...)="[^"]*"/ at i: its end, or -1
UnsupportedAttributeEnd(s, i) ==
    LET j == SkipSpace(s, i) IN
    IF j = i THEN -1
    ELSE IF \E a \in UnsupportedAttributes :
                StartsWith(s, a \o <<"=", "\"">>, j)
    THEN LET a == CHOOSE a \in UnsupportedAttributes :
                      StartsWith(s, a \o <<"=", "\"">>, j)
             quote == FindChar(s, "\"", j + Len(a) + 2)
         IN  IF quote < 0 THEN -1 ELSE quote + 1
    ELSE -1

RECURSIVE StripLoop(_, _)
StripLoop(s, i) ==
    LET hits == {k \in i..(Len(s) - 1) : UnsupportedAttributeEnd(s, k) >= 0} IN
    IF hits = {} THEN Slice(s, i, Len(s))
    ELSE LET k == FirstOf(hits)
         IN  Slice(s, i, k) \o StripLoop(s, UnsupportedAttributeEnd(s, k))

stripUnsupportedAttributes(s) == StripLoop(s, 0)

postProcessMathML(mathml) ==
    LET namespaceEnforced == ensureMathNamespace(mathml)
        accentHandled == enforceMoverAccents(namespaceEnforced)
        placeholderReplaced == replaceNonePlaceholders(accentHandled)
        emptyRemoved == removeEmptyNodes(placeholderReplaced)
    IN  stripUnsupportedAttributes(emptyRemoved)

-----------------------------------------------------------------------------
(* The OCR endpoint of server/index.ts and the image helper of the front end *)

\* the backtick, written as its code point
BACKTICK == "U+0060"
FENCE == <<BACKTICK, BACKTICK, BACKTICK>>
FENCE_LATEX == FENCE \o <<"l", "a", "t", "e", "x">>
DOLLARS == <<"$", "$">>
BRACKET_OPEN == <<"\\", "[">>
BRACKET_CLOSE == <<"\\", "]">>

\* the first replace of the fences, (fence)latex\s*\n? by nothing, from
\* position i on: the greedy \s* takes the whole run of whitespace
RECURSIVE RemoveLatexFences(_, _)
RemoveLatexFences(s, i) ==
    LET k == IndexOf(s, FENCE_LATEX, i) IN
    IF k < 0 THEN Slice(s, i, Len(s))
    ELSE Slice(s, i, k)
             \o RemoveLatexFences(s, SkipSpace(s, k + Len(FENCE_LATEX)))

\* the leftmost match of (fence)\s*$, or -1: $ is the end of the string
FinalFence(s) ==
    FirstOf({k \in 0..(Len(s) - 1) :
                 /\ StartsWith(s, FENCE, k)
                 /\ SkipSpace(s, k + Len(FENCE)) = Len(s)})

\* the second replace of the fences, (fence)\s*$ by nothing
RemoveFinalFence(s) ==
    LET k == FinalFence(s) IN
    IF k < 0 THEN s ELSE Slice(s, 0, k)

\* the leftmost match of (tick)([^(tick)]+)(tick) at or after i, or -1:
\* a backtick, at least one other character, and a backtick after them
InlineCodeStart(s, i) ==
    FirstOf({k \in i..(Len(s) - 1) :
                 /\ At(s, k) = BACKTICK
                 /\ k + 1 < Len(s)
                 /\ At(s, k + 1) # BACKTICK
                 /\ FindChar(s, BACKTICK, k + 1) >= 0})

\* the replace of inline code by its group 1, from position i on
RECURSIVE RemoveInlineCode(_, _)
RemoveInlineCode(s, i) ==
    LET k == InlineCodeStart(s, i)
        j == FindChar(s, BACKTICK, k + 1) IN
    IF k < 0 THEN Slice(s, i, Len(s))
    ELSE Slice(s, i, k) \o Slice(s, k + 1, j) \o RemoveInlineCode(s, j + 1)

\* the two replace statements that remove the fences, then the inline code
StripMarkdown(content) ==
    RemoveInlineCode(RemoveFinalFence(RemoveLatexFences(content, 0)), 0)

\* cleaned.match(/open([\s\S]*?)close/): the leftmost opener that has a
\* closer after it, and the nearest such closer; group 1 is inner
SpanMatch(s, open, close) ==
    LET i == IndexOf(s, open, 0)
        j == IF i < 0 THEN -1 ELSE IndexOf(s, close, i + Len(open)) IN
    IF j < 0 THEN Null
    ELSE [ok |-> TRUE, inner |-> Slice(s, i + Len(open), j)]

\* the matches tried with \[...\] before $$...$$ (a variant the formula of
\* C14 is tried against)
ExtractBracketFirst(cleaned, dollarMatch, bracketMatch) ==
    IF bracketMatch.ok THEN Trim(bracketMatch.inner)
    ELSE IF dollarMatch.ok THEN Trim(dollarMatch.inner)
    ELSE Trim(cleaned)

\* the three return statements after the cleaning
ExtractFrom(cleaned, dollarMatch, bracketMatch) ==
    IF dollarMatch.ok THEN Trim(dollarMatch.inner)
    ELSE IF bracketMatch.ok THEN Trim(bracketMatch.inner)
    ELSE Trim(cleaned)

extractLatex(content) ==
    IF content = <<>> THEN <<>>
    ELSE Sole({ExtractFrom(cleaned,
                           SpanMatch(cleaned, DOLLARS, DOLLARS),
                           SpanMatch(cleaned, BRACKET_OPEN, BRACKET_CLOSE)) :
                   cleaned \in {StripMarkdown(content)}})

\* error messages: those callUpstreamOCR builds and, for the failures of
\* readFile, fetch and response.json, one message each
TIMEOUT ==
    <<"t", "i", "m", "e", "o", "u", "t">>
UPSTREAM_RETURNED ==
    <<"U", "p", "s", "t", "r", "e", "a", "m", " ", "r", "e", "t", "u", "r",
          "n", "e", "d">>
ABORT_MESSAGE ==
    <<"U", "p", "s", "t", "r", "e", "a", "m", " ", "r", "e", "q", "u", "e",
          "s", "t", " ", "t", "i", "m", "e", "o", "u", "t">>
READ_MESSAGE ==
    <<"E", "N", "O", "E", "N", "T", ":", " ", "n", "o", " ", "s", "u", "c",
          "h", " ", "f", "i", "l", "e", " ", "o", "r", " ", "d", "i", "r",
          "e", "c", "t", "o", "r", "y">>
FETCH_MESSAGE ==
    <<"f", "e", "t", "c", "h", " ", "f", "a", "i", "l", "e", "d">>
UNLINK_MESSAGE == <<"E", "N", "O", "E", "N", "T">>
JSON_MESSAGE ==
    <<"U", "n", "e", "x", "p", "e", "c", "t", "e", "d", " ", "t", "o", "k",
          "e", "n", " ", "<", " ", "i", "n", " ", "J", "S", "O", "N", " ",
          "a", "t", " ", "p", "o", "s", "i", "t", "i", "o", "n", " ", "0">>

\* response.status as the message shows it, for the statuses the upstream
\* service answers with
UpstreamStatuses == {200, 204, 400, 404, 500, 503, 504}
StatusText(n) ==
    CASE n = 200 -> <<"2", "0", "0">>
      [] n = 204 -> <<"2", "0", "4">>
      [] n = 400 -> <<"4", "0", "0">>
      [] n = 404 -> <<"4", "0", "4">>
      [] n = 500 -> <<"5", "0", "0">>
      [] n = 503 -> <<"5", "0", "3">>
      [] n = 504 -> <<"5", "0", "4">>

\* response.ok
IsOk(n) == n >= 200 /\ n <= 299

\* error bodies of the upstream service; the long one carries its last word
\* past the part of the body that goes into the message
MessageBody == 100
BODY_BUSY ==
    <<"b", "u", "s", "y">>
BODY_TIMEOUT ==
    <<"u", "p", "s", "t", "r", "e", "a", "m", " ", "t", "i", "m", "e", "o",
          "u", "t">>
BODY_LONG == [k \in 1..MessageBody |-> "x"] \o TIMEOUT
ErrorBodies == {<<>>, BODY_BUSY, BODY_TIMEOUT, BODY_LONG}

\* the message of the Error thrown for an answer that is not ok
UpstreamMessage(status, errorText) ==
    UPSTREAM_RETURNED \o <<" ">> \o StatusText(status) \o <<":", " ">>
        \o Slice(errorText, 0, MessageBody)

\* String.prototype.includes
Includes(s, p) == IndexOf(s, p, 0) >= 0

\* the status the catch clause of the handler answers with
ErrorStatus(message) ==
    IF Includes(message, TIMEOUT) THEN 504
    ELSE IF Includes(message, UPSTREAM_RETURNED) THEN 502
    ELSE 500

NoError == [thrown |-> FALSE, message |-> <<>>]
Thrown(message) == [thrown |-> TRUE, message |-> message]

\* no request yet
ServerIdle ==
    [pc |-> "idle", file |-> FALSE, upstream |-> 0, aborted |-> FALSE,
     content |-> <<>>, latex |-> <<>>, error |-> NoError,
     status |-> 0, responses |-> 0, unlinks |-> 0, unlinkFailed |-> FALSE,
     timer |-> "none"]

\* compressImage(file, maxDimension = 1600, quality = 0.92), as App.tsx
\* calls it: with the file only
maxDimension == 1600

\* the canvas of the longer-than-maxDimension image: the longer side becomes
\* maxDimension, the other side is scaled, and the canvas keeps the integer
\* part of what it is assigned
NewWidth(width, height) ==
    IF width > height
    THEN (IF width > maxDimension THEN maxDimension ELSE width)
    ELSE (IF height > maxDimension
          THEN (width * maxDimension) \div height ELSE width)

NewHeight(width, height) ==
    IF width > height
    THEN (IF width > maxDimension
          THEN (height * maxDimension) \div width ELSE height)
    ELSE (IF height > maxDimension THEN maxDimension ELSE height)

\* if (width <= maxDimension && height <= maxDimension) resolve(file)
NeedsNoCompression(width, height) ==
    width <= maxDimension /\ height <= maxDimension

\* App.tsx, the effect that converts on the client: the display flag handed
\* to tex2mmlPromise
fallbackIsDisplay(s) ==
    \/ Includes(s, <<"\\", "b", "e", "g", "i", "n">>)
    \/ Includes(s, <<"\\", "\\">>)
    \/ Includes(s, <<"\n">>)

\* App.tsx, the render output: the delimiters put around result.latex
renderDelimiters(s) ==
    IF \/ Includes(s, <<"\\", "b", "e", "g", "i", "n">>)
       \/ Includes(s, <<"\\", "\\">>)
    THEN <<BRACKET_OPEN, BRACKET_CLOSE>>
    ELSE <<DOLLARS, DOLLARS>>

\* the selections and the recognitions one run of the page goes through
MaxPicks == 3
MaxRequests == 3

\* useState('') of error: no message, the message of validateImageFile, or
\* the message of the recognition request that failed
NoUiError == [kind |-> "none", request |-> 0]

\* App after its first render: useState(null), useState(false),
\* useState(''), useState(null); no promise is awaited
UiIdle ==
    [imageFile |-> 0, loading |-> FALSE, error |-> NoUiError, result |-> 0,
     picked |-> 0, compressing |-> {}, started |-> 0, inFlight |-> {}]

\* recognizeImage up to its await: setLoading(true), setError(''),
\* setResult(null) and the call of recognizeFormula
recognizeImageStart(u) ==
    [u EXCEPT !.loading = TRUE, !.error = NoUiError, !.result = 0,
              !.started = u.started + 1,
              !.inFlight = u.inFlight \cup {u.started + 1}]

\* recognizeImage after its await: setResult(response), or setError of the
\* message caught, and setLoading(false) in both cases
recognizeImageSettle(u, request, ok) ==
    [u EXCEPT !.result = IF ok THEN request ELSE u.result,
              !.error = IF ok THEN u.error
                        ELSE [kind |-> "failed", request |-> request],
              !.loading = FALSE,
              !.inFlight = u.inFlight \ {request}]

\* no image chosen yet
WebIdle ==
    [pc |-> "idle", width |-> 0, height |-> 0, newWidth |-> 0,
     newHeight |-> 0, outcome |-> "none"]

-----------------------------------------------------------------------------
(* Inputs                                                                  *)

\* the longest input, in fragments, of the call-level specifications
MaxParts == 3
\* the longest input, in fragments, of the iteration-level specification
MaxScanParts == 3

RECURSIVE Flatten(_)
Flatten(ps) == IF ps = <<>> THEN <<>> ELSE Head(ps) \o Flatten(Tail(ps))

SeqsUpTo(F, n) == UNION {[1..k -> F] : k \in 0..n}

MARKER == <<"{", "}">>
SUB3 == <<"_", "{", "3", "}">>
SUP0 == <<"^", "{", "0", "}">>
ALPHA == <<"\\", "a", "l", "p", "h", "a">>
GROUPX == <<"{", "x", "}">>

\* fragments of left-script notation
ScriptFrags ==
    {MARKER, SUB3, SUP0, <<"_">>, <<"x">>, <<" ">>, ALPHA, <<"{">>, <<"}">>}

\* fragments of derivative notation
DerivFrags ==
    {DOT, DDOT, <<"s">>, <<" ">>, GROUPX, <<"1">>, ALPHA, <<"_">>, <<"{">>,
     <<"\\">>}

\* fragments the cleaner acts on
CleanFrags ==
    {TEXT, BM, LIMITS, <<"{">>, <<"}">>, <<" ">>, <<"a">>, <<"_">>}

\* fragments of the iteration-level specification
ScanFrags ==
    {MARKER, SUB3, <<"^">>, LEFT, BIGG, <<"x">>, <<" ">>, DOT, <<"{">>,
     <<"\\">>}

\* the literal scenarios: {}_{3}^{0}R, {}^{0}\upsilon_{3}, {}^{0}_{3}\mathbf{R},
\* R_{3}^{0}, {}_{3}^{0}\left(x\right), \dot{\theta}, \ddot{q},
\* \text{  Hello   World  }
Scenarios ==
    { <<MARKER, SUB3, SUP0, <<"R">>>>,
      <<MARKER, SUP0, <<"\\", "u", "p", "s", "i", "l", "o", "n">>, SUB3>>,
      <<MARKER, SUP0, SUB3, MATHBF, <<"{", "R", "}">>>>,
      <<<<"R">>, SUB3, SUP0>>,
      <<MARKER, SUB3, SUP0, LEFT, <<"(">>, <<"x">>, RIGHT, <<")">>>>,
      <<DOT, <<"{", "\\", "t", "h", "e", "t", "a", "}">>>>,
      <<DDOT, <<"{", "q", "}">>>>,
      <<TEXT, <<"{">>, <<" ", " ">>, <<"H", "e", "l", "l", "o">>,
        <<" ", " ", " ">>, <<"W", "o", "r", "l", "d">>, <<" ", " ">>, <<"}">>>> }

\* what the external compiler's serialized tree may be
RAW_PLAIN ==
    MATH_OPEN \o <<">", "<", "m", "i", ">", "x", "<", "/", "m", "i", ">",
                   "<", "/", "m", "a", "t", "h", ">">>
RAW_ACCENT ==
    MATH_OPEN \o <<" ">> \o A_display \o <<"=", "\"", "b", "\"", ">">>
        \o MOVER_OPEN \o <<">", "<", "m", "i", ">", "x", "<", "/", "m", "i", ">">>
        \o MO_OPEN \o <<">", DOTGLYPH>> \o MO_CLOSE \o MOVER_CLOSE
        \o MROW_OPEN \o <<">">> \o MROW_CLOSE
        \o <<"<", "/", "m", "a", "t", "h", ">">>
CompilerOutputs == {RAW_PLAIN, RAW_ACCENT}

\* Markup as the serializer writes it: elements with attributes of the form
\* name="value", each preceded by one space
MATH_CLOSE == <<"<", "/", "m", "a", "t", "h", ">">>
MI_X == <<"<", "m", "i", ">", "x", "<", "/", "m", "i", ">">>
DISPLAY_BLOCK == <<" ">> \o A_display \o <<"=", "\"", "b", "\"">>
CLASS_M == <<" ", "c", "l", "a", "s", "s", "=", "\"", "m", "\"">>
ACCENT_FALSE == <<" ">> \o ACCENT \o <<"=", "\"", "f", "\"">>
ARROWGLYPH == "U+2192"

MoElement(glyph) == MO_OPEN \o <<">">> \o glyph \o MO_CLOSE
MoverElement(attrs, base, glyph) ==
    MOVER_OPEN \o attrs \o <<">">> \o base \o MoElement(glyph) \o MOVER_CLOSE
MathElement(attrs, body) ==
    MATH_OPEN \o attrs \o <<">">> \o body \o MATH_CLOSE

\* the attributes of a root tag: up to MaxAttrs distinct ones, in any order
MaxAttrs == 2
RootAttrs == {XMLNS_ATTR, DISPLAY_BLOCK, CLASS_M}
RootAttrLists ==
    {as \in SeqsUpTo(RootAttrs, MaxAttrs) :
         \A i, j \in 1..Len(as) : i # j => as[i] # as[j]}
RootBodies ==
    {MI_X, MoverElement(<<>>, MI_X, <<DOTGLYPH>>),
     MathElement(<<>>, MI_X), MathElement(XMLNS_ATTR, MI_X)}
RootInputs ==
    {MathElement(Flatten(as), body) : as \in RootAttrLists, body \in RootBodies}

\* <mover> elements alone, next to one another and one inside the other
MoverAttrs == {<<>>, ACCENT_TRUE, ACCENT_FALSE}
PairGlyphs == {<<DOTGLYPH>>, E_DoubleDot, <<ARROWGLYPH>>}
MoverCases ==
    [kind : {"single"}, attrs : MoverAttrs,
     glyph : DotGlyphs \cup {<<ARROWGLYPH>>},
     attrs2 : {<<>>}, glyph2 : {<<ARROWGLYPH>>}]
    \cup [kind : {"siblings", "nested"}, attrs : MoverAttrs, glyph : PairGlyphs,
          attrs2 : MoverAttrs, glyph2 : PairGlyphs]

\* the markup of a case; in a nested case attrs and glyph are the outer
\* element's, attrs2 and glyph2 those of the element that is its base
MoverMarkup(kind, attrs, glyph, attrs2, glyph2) ==
    MathElement(XMLNS_ATTR,
        CASE kind = "single" -> MoverElement(attrs, MI_X, glyph)
          [] kind = "siblings" ->
                 MoverElement(attrs, MI_X, glyph)
                     \o MoverElement(attrs2, MI_X, glyph2)
          [] kind = "nested" ->
                 MoverElement(attrs, MoverElement(attrs2, MI_X, glyph2), glyph))
MoverInputs ==
    {MoverMarkup(c.kind, c.attrs, c.glyph, c.attrs2, c.glyph2) : c \in MoverCases}

\* rows, cells and text elements that are empty, hold whitespace, hold
\* <mi>x</mi> or hold one more such element
ContainerTags == {"mrow", "mtd", "mtext"}
OpenTag(tag) ==
    CASE tag = "mrow" -> MROW_OPEN
      [] tag = "mtd" -> MTD_OPEN
      [] tag = "mtext" -> MTEXT_OPEN
CloseTag(tag) ==
    CASE tag = "mrow" -> MROW_CLOSE
      [] tag = "mtd" -> MTD_CLOSE
      [] tag = "mtext" -> MTEXT_CLOSE
Container(tag, attrs, content) ==
    OpenTag(tag) \o attrs \o <<">">> \o content \o CloseTag(tag)
LeafContents == {<<>>, <<" ">>, <<"\n", " ">>, MI_X}
InnerContainers ==
    {Container(tag, attrs, content) :
         tag \in ContainerTags, attrs \in {<<>>, CLASS_M},
         content \in LeafContents}
EmptyInputs ==
    {MathElement(XMLNS_ATTR, Container(tag, <<>>, pad \o content \o pad)) :
         tag \in {"mrow", "mtd"}, pad \in {<<>>, <<" ">>},
         content \in LeafContents \cup InnerContainers}
        \cup {MathElement(XMLNS_ATTR, inner) : inner \in InnerContainers}

MarkupInputs ==
    CompilerOutputs \cup RootInputs \cup MoverInputs \cup EmptyInputs

\* the longest argument, in fragments, of a generated \text block
MaxBody == 3

\* the empty-base marker, one or two scripts of different kinds, a base off
\* the skip list, and possibly a script trailing the base
PrescriptInputs ==
    { <<MARKER>> \o scripts \o <<base>> \o trailing :
        scripts \in {<<SUB3>>, <<SUP0>>, <<SUB3, SUP0>>, <<SUP0, SUB3>>},
        base \in {<<"x">>, ALPHA, GROUPX},
        trailing \in {<<>>, <<SUB3>>, <<SUP0>>} }

\* a left-script construct whose base is a group carrying another one
CarriedInputs ==
    { <<MARKER, outer, <<"{">>, MARKER, inner, <<"x">>, <<"}">>>> :
        outer \in {SUB3, SUP0}, inner \in {SUB3, SUP0} }

\* a bare script after each kind of character, between two bases
ContextChars ==
    {" ", "(", "[", "{", "=", "+", "-", "*", "/", "a", "1", "}", ")", ","}
ContextInputs ==
    { <<<<"x">>, <<c>>, script, <<"x">>>> :
        c \in ContextChars, script \in {SUB3, SUP0} }

\* the marker and one script before bases on and off the skip list
LEFTARROW == LEFT \o <<"a", "r", "r", "o", "w">>
RIGHTARROW == RIGHT \o <<"a", "r", "r", "o", "w">>
BIGCUP == BIG \o <<"c", "u", "p">>
MATHBF_R == MATHBF \o <<"{", "R", "}">>
BaseInputs ==
    { <<MARKER, script, base>> :
        script \in {SUB3, SUP0},
        base \in {LEFT \o <<"(">>, RIGHT \o <<")">>, BIG \o <<"(">>,
                  BIGU \o <<"(">>, BIGG \o <<"(">>, BIGGU \o <<"(">>,
                  LEFTARROW, RIGHTARROW, BIGCUP, MATHBF_R, ALPHA, GROUPX,
                  <<"x">>} }

\* a derivative command, a target of each form and a script attached to it
MATHBF_X == MATHBF \o GROUPX
TargetInputs ==
    { <<cmd, target, script>> :
        cmd \in {DOT, DDOT},
        target \in {GROUPX, ALPHA, MATHBF_X, <<"1">>},
        script \in {SUB3, SUP0, <<"_", "1">>} }

\* fragments of the argument of a \text block
BodyFrags == {<<" ">>, <<"a">>, GROUPX, <<"_">>, LIMITS}

\* a \text block with a generated argument
TextInputs ==
    { <<TEXT, <<"{">>>> \o body \o <<<<"}">>>> :
        body \in SeqsUpTo(BodyFrags, MaxBody) }

\* what decides the layout mode, alone, next to a letter, and cut short
DisplayFrags ==
    DisplayCues \cup {<<"x">>, <<"\\">>, <<"\\", "i", "n">>, <<"n">>}
DisplayInputs ==
    {<<a>> : a \in DisplayFrags} \cup {<<a, b>> : a, b \in DisplayFrags}

\* an escaped space as the last character of a text block, of a script value
\* and of an accent target
ESC_SPACE == <<"\\", " ">>
EscapeInputs ==
    { <<TEXT, <<"{">>, <<"a">>, ESC_SPACE, <<"}">>>>,
      <<TEXT, <<"{">>, ESC_SPACE, <<"a">>, <<"}">>>>,
      <<MARKER, <<"_", "{">>, <<"a">>, ESC_SPACE, <<"}">>, SUP0, <<"R">>>>,
      <<DOT, <<"{">>, <<"x">>, ESC_SPACE, <<"}">>>> }

\* left scripts whose values and base are a character, a group, two
\* characters, two groups, a command and a group with a script of its own;
\* accents over a group, a command and a character with a script
GROUP_AB == <<"{", "a", "}", "{", "b", "}">>
GROUP_A_SUB_B == <<"{", "a", "}", "_", "{", "b", "}">>
ArgValues == {<<"3">>, GROUPX, <<"a", "b">>, GROUP_AB}
ArgBases == {<<"R">>, GROUPX, ALPHA, GROUP_A_SUB_B}
ArgTargets == {GROUPX, ALPHA, <<"x", "_", "{", "1", "}">>}
PrescriptArgInputs ==
    { <<MARKER, <<"_", "{">>, sub, <<"}">>, <<"^", "{">>, sup, <<"}">>, base>> :
        sub \in ArgValues, sup \in ArgValues, base \in ArgBases }
OversetArgInputs ==
    {<<cmd, <<" ">>, target>> : cmd \in {DOT, DDOT}, target \in ArgTargets}

\* convertLatexToMathML not called, or returning '' before the try block
NoConversion ==
    [calls |-> 0, display |-> FALSE, outcome |-> "none", raw |-> <<>>,
     raised |-> FALSE, out |-> <<>>]

\* Model responses: what the upstream service sends as message content.
\* Up to MaxContent fragments, two delimited spans in a row, and the inputs
\* of the test suite of extractLatex
MaxContent == 3
ContentFrags ==
    {FENCE, FENCE_LATEX, <<BACKTICK>>, DOLLARS, BRACKET_OPEN, BRACKET_CLOSE,
     <<" ">>, <<"\n">>, <<"a">>, <<"$">>}
SPAN_DOLLAR ==
    <<"$", "$", "b", "$", "$">>
SPAN_DOLLAR_WIDE ==
    <<"$", "$", " ", "b", " ", "$", "$">>
SPAN_BRACKET ==
    <<"\\", "[", "a", "\\", "]">>
SPAN_TICKED ==
    <<BACKTICK, "$", "$", "c", "$", "$", BACKTICK>>
ContentSpans == {SPAN_DOLLAR, SPAN_DOLLAR_WIDE, SPAN_BRACKET, SPAN_TICKED}
SpanPairs ==
    {x \o m \o y : x \in ContentSpans, y \in ContentSpans,
                   m \in {<<>>, <<" ">>, <<"a">>, <<BACKTICK>>}}
TEST_PREFER ==
    <<"\\", "[", "a", "\\", "]", " ", "a", "n", "d", " ", "$", "$", "b",
          "$", "$">>
TEST_FENCED ==
    <<BACKTICK, BACKTICK, BACKTICK, "l", "a", "t", "e", "x", "\n", "$",
          "$", "x", "^", "2", "$", "$", "\n", BACKTICK, BACKTICK, BACKTICK>>
TEST_INLINE ==
    <<"T", "h", "e", " ", "a", "n", "s", "w", "e", "r", " ", "i", "s", " ",
          BACKTICK, "$", "$", "x", "^", "2", "$", "$", BACKTICK>>
TEST_PLAIN ==
    <<"J", "u", "s", "t", " ", "p", "l", "a", "i", "n", " ", "t", "e", "x",
          "t", " ", "f", "o", "r", "m", "u", "l", "a", ":", " ", "x", "^",
          "2">>
TestContents == {TEST_PREFER, TEST_FENCED, TEST_INLINE, TEST_PLAIN}
ContentInputs ==
    {Flatten(fs) : fs \in SeqsUpTo(ContentFrags, MaxContent)}
        \cup SpanPairs \cup TestContents

InitWith(inputs) ==
    /\ \/ absent = FALSE /\ parts \in inputs
       \/ absent = TRUE /\ parts = <<>>
    /\ latex = Flatten(parts)
    /\ pc = "start"
    /\ src = <<>>
    /\ index = 0
    /\ result = <<>>
    /\ out1 = <<>>
    /\ out2 = <<>>
    /\ branch = "none"
    /\ passes = 0
    /\ display = FALSE
    /\ mml = NoConversion
    /\ srv = ServerIdle
    /\ web = WebIdle
    /\ ui = UiIdle

Init ==
    InitWith(SeqsUpTo(ScriptFrags, MaxParts) \cup Scenarios
                 \cup PrescriptInputs \cup CarriedInputs
                 \cup ContextInputs \cup BaseInputs)
InitDeriv ==
    InitWith(SeqsUpTo(DerivFrags, MaxParts) \cup Scenarios \cup TargetInputs)
InitClean ==
    InitWith(SeqsUpTo(CleanFrags, MaxParts) \cup Scenarios \cup TextInputs
                 \cup DisplayInputs \cup EscapeInputs \cup PrescriptArgInputs
                 \cup OversetArgInputs)
\* the sides, in pixels, of the images the user picks
ImageSides == {1, 900, 1599, 1600, 1601, 1800, 2000, 2001, 2400, 3200}

InitWeb == InitWith({<<>>}) /\ ~absent
InitServer == InitWith({<<>>}) /\ ~absent
InitMml == InitWith({<<ALPHA>>, <<DOT, GROUPX>>})
InitScan == InitWith(SeqsUpTo(ScanFrags, MaxScanParts) \cup Scenarios)

-----------------------------------------------------------------------------
(* Calls                                                                   *)

\* normalizeLatex(latex)
Normalize ==
    /\ pc = "start"
    /\ \E r \in {normalizeLatexCall(absent, latex)} :
       /\ out1' = r.out
       /\ passes' = r.passes
    /\ pc' = "normalized"
    /\ UNCHANGED <<ui, srv, web, parts, absent, latex, src, index, result, out2, branch,
                   display, mml>>

\* normalizeLatex applied to the string the first call returned
Renormalize ==
    /\ pc = "normalized"
    /\ out2' = normalizeLatexCall(FALSE, out1).out
    /\ pc' = "renormalized"
    /\ UNCHANGED <<ui, srv, web, parts, absent, latex, src, index, result, out1, branch,
                   passes, display, mml>>

\* isDisplayLatex(latex)
IsDisplay ==
    /\ pc = "start"
    /\ display' = isDisplayLatexCall(absent, latex)
    /\ pc' = "classified"
    /\ UNCHANGED <<ui, srv, web, parts, absent, latex, src, index, result, out1, out2,
                   branch, passes, mml>>

\* convertLatexToMathML without the try block: what the compiler throws
\* reaches the caller (a variant the formula of C11 is tried against)
convertLatexToMathMLUncaught(isAbsent, s, displayOverride, outcome, raw) ==
    IF isAbsent \/ Trim(s) = <<>> THEN NoConversion
    ELSE [calls |-> 1,
          display |-> IF displayOverride = "undefined"
                      THEN isDisplayLatexCall(isAbsent, s)
                      ELSE displayOverride = "true",
          outcome |-> outcome,
          raw |-> raw,
          raised |-> outcome = "throws",
          out |-> IF outcome = "tree" THEN postProcessMathML(raw) ELSE <<>>]

\* convertLatexToMathML(latex, displayOverride) with the compiler's outcome:
\* compile throws, leaves no root, or yields a tree serialized as raw.
\* calls counts the compile calls, raised tells whether an exception left
\* the function: the catch clause returns '' for whatever the try block throws
convertLatexToMathML(isAbsent, s, displayOverride, outcome, raw) ==
    IF isAbsent \/ Trim(s) = <<>> THEN NoConversion
    ELSE [calls |-> 1,
          display |-> IF displayOverride = "undefined"
                      THEN isDisplayLatexCall(isAbsent, s)
                      ELSE displayOverride = "true",
          outcome |-> outcome,
          raw |-> raw,
          raised |-> FALSE,
          out |-> IF outcome = "tree" THEN postProcessMathML(raw) ELSE <<>>]

\* a call of convertLatexToMathML whose compiler serializes one of raws
ConvertWith(raws) ==
    /\ pc = "start"
    /\ \E displayOverride \in {"true", "false", "undefined"} :
       \E outcome \in {"throws", "noroot", "tree"} :
       \E raw \in IF outcome = "tree" THEN raws ELSE {<<>>} :
           mml' = convertLatexToMathML(absent, latex, displayOverride, outcome, raw)
    /\ pc' = "converted"
    /\ UNCHANGED <<ui, srv, web, parts, absent, latex, src, index, result, out1, out2,
                   branch, passes, display>>

Convert == ConvertWith(CompilerOutputs)

Next == Normalize \/ Renormalize \/ IsDisplay \/ Convert

Spec == Init /\ [][Next]_vars
SpecDeriv == InitDeriv /\ [][Next]_vars
SpecClean == InitClean /\ [][Next]_vars

\* convertLatexToMathML over the markup the compiler can serialize
ConvertMarkup == ConvertWith(MarkupInputs)
NextMml == ConvertMarkup
SpecMml == InitMml /\ [][NextMml]_vars

-----------------------------------------------------------------------------
(* The two scan loops of normalizeLatex, one iteration at a time           *)

\* normalizeLatex up to the first test of the while loop of rewriteLeftScripts
ScanStart ==
    /\ pc = "start"
    /\ IF absent \/ latex = <<>>
       THEN /\ pc' = "normalized"
            /\ out1' = <<>>
            /\ UNCHANGED <<src, passes>>
       ELSE /\ pc' = "left"
            /\ src' = cleanEnvironments(latex)
            /\ passes' = 1
            /\ UNCHANGED out1
    /\ index' = 0
    /\ result' = <<>>
    /\ UNCHANGED <<ui, srv, web, parts, absent, latex, out2, branch, display, mml>>

\* one iteration of the while loop of rewriteLeftScripts
LeftStep ==
    /\ pc = "left"
    /\ index < Len(src)
    /\ \E it \in {LeftScriptsIteration(src, index)} :
       /\ result' = result \o it.emit
       /\ index' = it.next
       /\ branch' = it.branch
    /\ UNCHANGED <<ui, srv, web, parts, absent, latex, pc, src, out1, out2, passes,
                   display, mml>>

\* rewriteLeftScripts returns; normalizeDerivatives starts on its result
LeftDone ==
    /\ pc = "left"
    /\ index >= Len(src)
    /\ pc' = "deriv"
    /\ src' = result
    /\ index' = 0
    /\ result' = <<>>
    /\ branch' = "none"
    /\ passes' = 2
    /\ UNCHANGED <<ui, srv, web, parts, absent, latex, out1, out2, display, mml>>

\* one iteration of the while loop of normalizeDerivatives
DerivStep ==
    /\ pc = "deriv"
    /\ index < Len(src)
    /\ \E it \in {DerivativesIteration(src, index)} :
       /\ result' = result \o it.emit
       /\ index' = it.next
       /\ branch' = it.branch
    /\ UNCHANGED <<ui, srv, web, parts, absent, latex, pc, src, out1, out2, passes,
                   display, mml>>

\* normalizeDerivatives returns, and normalizeLatex returns its result
DerivDone ==
    /\ pc = "deriv"
    /\ index >= Len(src)
    /\ pc' = "normalized"
    /\ out1' = result
    /\ passes' = 3
    /\ branch' = "none"
    /\ UNCHANGED <<ui, srv, web, parts, absent, latex, src, index, result, out2, display,
                   mml>>

NextScan == ScanStart \/ LeftStep \/ LeftDone \/ DerivStep \/ DerivDone

SpecScan == InitScan /\ [][NextScan]_vars
\* the loops are synchronous code: an iteration that can run does run
SpecScanFair == SpecScan /\ WF_vars(NextScan)

-----------------------------------------------------------------------------
(* POST /api/ocr, one step per stretch of the handler between two awaits    *)

\* upload.single('image') has run and the handler is entered, with or
\* without req.file
Request ==
    /\ srv.pc = "idle"
    /\ \E file \in BOOLEAN :
           srv' = [ServerIdle EXCEPT !.pc = "handler", !.file = file]
    /\ UNCHANGED <<engine, web, ui>>

\* if (!req.file) return res.status(400).json(...)
NoFile ==
    /\ srv.pc = "handler"
    /\ ~srv.file
    /\ srv' = [srv EXCEPT !.pc = "done", !.status = 400,
                          !.responses = srv.responses + 1]
    /\ UNCHANGED <<engine, web, ui>>

\* await fileToDataURL(filePath, mimetype): readFile throws, or the file is
\* read and callUpstreamOCR runs up to its await: setTimeout is called and
\* the fetch is sent
ReadFile ==
    /\ srv.pc = "handler"
    /\ srv.file
    /\ \/ srv' = [srv EXCEPT !.pc = "upstream", !.timer = "armed"]
       \/ srv' = [srv EXCEPT !.pc = "finally", !.error = Thrown(READ_MESSAGE)]
    /\ UNCHANGED <<engine, web, ui>>

\* await callUpstreamOCR(dataURL): the timer aborts the fetch, the fetch
\* fails, the service answers with a status that is not ok, or it answers ok
\* with a body that is not JSON or with a completion carrying content;
\* clearTimeout(timeoutId) runs after the fetch and in the catch clause
CallUpstreamWith(contents) ==
    /\ srv.pc = "upstream"
    /\ \/ srv' = [srv EXCEPT !.timer = "cleared", !.pc = "finally", !.aborted = TRUE,
                             !.error = Thrown(ABORT_MESSAGE)]
       \/ srv' = [srv EXCEPT !.timer = "cleared", !.pc = "finally", !.error = Thrown(FETCH_MESSAGE)]
       \/ \E status \in {n \in UpstreamStatuses : ~IsOk(n)} :
          \E errorText \in ErrorBodies :
              srv' = [srv EXCEPT !.timer = "cleared", !.pc = "finally", !.upstream = status,
                          !.error = Thrown(UpstreamMessage(status, errorText))]
       \/ \E status \in {n \in UpstreamStatuses : IsOk(n)} :
              srv' = [srv EXCEPT !.timer = "cleared", !.pc = "finally", !.upstream = status,
                                 !.error = Thrown(JSON_MESSAGE)]
       \/ \E status \in {n \in UpstreamStatuses : IsOk(n)} :
          \E rawContent \in contents :
              srv' = [srv EXCEPT !.timer = "cleared", !.pc = "reply", !.upstream = status,
                                 !.content = rawContent,
                                 !.latex = extractLatex(rawContent)]
    /\ UNCHANGED <<engine, web, ui>>

CallUpstream == CallUpstreamWith(ContentInputs)

\* res.json({ latex, raw, request_id })
Reply ==
    /\ srv.pc = "reply"
    /\ srv' = [srv EXCEPT !.pc = "finally", !.status = 200,
                          !.responses = srv.responses + 1]
    /\ UNCHANGED <<engine, web, ui>>

\* the finally block without its own try and catch: what unlink throws
\* replaces the error on its way to the outer catch clause (a variant the
\* formula of C30 is tried against)
FinallyUnguarded ==
    /\ srv.pc = "finally"
    /\ \E failed \in BOOLEAN :
           srv' = [srv EXCEPT
                      !.pc = IF srv.error.thrown \/ failed
                             THEN "catch" ELSE "done",
                      !.error = IF failed THEN Thrown(UNLINK_MESSAGE)
                                ELSE srv.error,
                      !.unlinks = srv.unlinks + 1,
                      !.unlinkFailed = failed]
    /\ UNCHANGED <<engine, web, ui>>

\* finally: unlink(filePath) is attempted; its own failure is caught and
\* only logged
Finally ==
    /\ srv.pc = "finally"
    /\ \E failed \in BOOLEAN :
           srv' = [srv EXCEPT
                      !.pc = IF srv.error.thrown THEN "catch" ELSE "done",
                      !.unlinks = srv.unlinks + 1,
                      !.unlinkFailed = failed]
    /\ UNCHANGED <<engine, web, ui>>

\* the outer catch clause: 504, 502 or 500 by what the message includes
Catch ==
    /\ srv.pc = "catch"
    /\ srv' = [srv EXCEPT !.pc = "done",
                          !.status = ErrorStatus(srv.error.message),
                          !.responses = srv.responses + 1]
    /\ UNCHANGED <<engine, web, ui>>

NextServer ==
    Request \/ NoFile \/ ReadFile \/ CallUpstream \/ Reply \/ Finally \/ Catch

SpecServer == InitServer /\ [][NextServer]_vars
\* every await of the handler settles: readFile and unlink answer, and the
\* fetch is aborted by the timer when nothing else ends it
\* the completions the cleanup is followed with
CleanupContents == TestContents \cup {<<>>}
CallUpstreamCleanup == CallUpstreamWith(CleanupContents)
NextCleanup ==
    \/ Request \/ NoFile \/ ReadFile \/ CallUpstreamCleanup \/ Reply
    \/ Finally \/ Catch
SpecCleanup == InitServer /\ [][NextCleanup]_vars /\ WF_vars(NextCleanup)

-----------------------------------------------------------------------------
(* compressImage of the front end, one step per callback                    *)

\* reader.readAsDataURL(file), reader.onload and the decoding of the image:
\* the image loads with its width and height, or the promise is rejected
LoadImage ==
    /\ web.pc = "idle"
    /\ \/ \E width \in ImageSides : \E height \in ImageSides :
              web' = [web EXCEPT !.pc = "loaded", !.width = width,
                                 !.height = height]
       \/ web' = [web EXCEPT !.pc = "settled", !.outcome = "rejected"]
    /\ UNCHANGED <<engine, srv, ui>>

\* img.onload: the file itself is resolved when no side exceeds
\* maxDimension or no 2d context is to be had; otherwise the image is drawn
\* on a canvas of the new size and toBlob is called
ImgOnload ==
    /\ web.pc = "loaded"
    /\ IF NeedsNoCompression(web.width, web.height)
       THEN web' = [web EXCEPT !.pc = "settled", !.outcome = "original"]
       ELSE \E ctx \in BOOLEAN :
                web' = [web EXCEPT
                           !.pc = IF ctx THEN "encoding" ELSE "settled",
                           !.outcome = IF ctx THEN "none" ELSE "original",
                           !.newWidth = NewWidth(web.width, web.height),
                           !.newHeight = NewHeight(web.width, web.height)]
    /\ UNCHANGED <<engine, srv, ui>>

\* the callback of canvas.toBlob: a new File of the canvas, or the file
\* itself when there is no blob, as for a canvas without pixels
ToBlob ==
    /\ web.pc = "encoding"
    /\ \E blob \in IF web.newWidth = 0 \/ web.newHeight = 0
                   THEN {FALSE} ELSE BOOLEAN :
           web' = [web EXCEPT !.pc = "settled",
                              !.outcome = IF blob THEN "compressed"
                                          ELSE "original"]
    /\ UNCHANGED <<engine, srv, ui>>

NextWeb == LoadImage \/ ImgOnload \/ ToBlob

SpecWeb == InitWeb /\ [][NextWeb]_vars

-----------------------------------------------------------------------------
(* App: the handlers of the page, one step per stretch between two awaits   *)

InitUi == InitWith({<<>>}) /\ ~absent

\* handleFileSelect up to its first await, as called by
\* handleFileInputChange, handleDrop and handlePaste: the state is cleared,
\* an invalid file sets the error and ends the handler, a valid one is
\* handed to compressImage
SelectFile ==
    /\ ui.picked < MaxPicks
    /\ \E valid \in BOOLEAN :
           ui' = [ui EXCEPT
                     !.result = 0,
                     !.error = IF valid THEN NoUiError
                               ELSE [kind |-> "invalid", request |-> 0],
                     !.picked = ui.picked + 1,
                     !.compressing = IF valid
                                     THEN ui.compressing \cup {ui.picked + 1}
                                     ELSE ui.compressing]
    /\ UNCHANGED <<engine, srv, web>>

\* handleFileSelect after compressImage resolved: setImageFile, the
\* preview, and recognizeImage up to its await
Compressed ==
    /\ ui.started < MaxRequests
    /\ \E pick \in ui.compressing :
           ui' = [recognizeImageStart(ui) EXCEPT
                     !.imageFile = pick,
                     !.compressing = ui.compressing \ {pick}]
    /\ UNCHANGED <<engine, srv, web>>

\* compressImage rejected: handleFileSelect ends at its await
CompressRejected ==
    /\ \E pick \in ui.compressing :
           ui' = [ui EXCEPT !.compressing = ui.compressing \ {pick}]
    /\ UNCHANGED <<engine, srv, web>>

\* handleRetry, behind the button of the error block: recognizeImage on the
\* image chosen last
Retry ==
    /\ ui.started < MaxRequests
    /\ ui.error.kind # "none"
    /\ ui.imageFile # 0
    /\ ui' = recognizeImageStart(ui)
    /\ UNCHANGED <<engine, srv, web>>

\* recognizeFormula settles for one of the requests in flight, in any order:
\* the rest of recognizeImage runs
Respond ==
    /\ \E request \in ui.inFlight : \E ok \in BOOLEAN :
           ui' = recognizeImageSettle(ui, request, ok)
    /\ UNCHANGED <<engine, srv, web>>

NextUi == SelectFile \/ Compressed \/ CompressRejected \/ Retry \/ Respond

SpecUi == InitUi /\ [][NextUi]_vars

-----------------------------------------------------------------------------
(* Claims                                                                  *)

\* C1: normalizeLatex applied to the string it returned returns that string
\* unchanged, for every input: nothing a first run emitted or carried
\* through is rewritten by a second run
C1_Idempotent == pc = "renormalized" => out2 = out1

Braced(value) == <<"{">> \o value \o <<"}">>

\* the number of scripts after the marker of a PrescriptInputs input
ScriptCount(ps) == IF ps[3] \in {SUB3, SUP0} THEN 2 ELSE 1

\* the value of the script of the given kind among the scripts of ps, or
\* \mathstrut when that side is missing
SideOf(kind, ps) ==
    IF \E k \in 2..(1 + ScriptCount(ps)) : Head(ps[k]) = kind
    THEN IF kind = "_" THEN <<"3">> ELSE <<"0">>
    ELSE MATHSTRUT

BaseOf(ps) == ps[2 + ScriptCount(ps)]

TrailingOf(ps) ==
    IF Len(ps) > 2 + ScriptCount(ps) THEN ps[Len(ps)] ELSE <<>>

PrescriptHead(ps) ==
    HSPACE0 \o PRESCRIPT \o Braced(SideOf("^", ps)) \o Braced(SideOf("_", ps))

\* C2: the marker {} followed by one or two scripts, in either order, and a
\* base off the skip list is replaced by \hspace{0pt}\prescript{SUP}{SUB}{BASE},
\* superscript first, a missing side being \mathstrut; a script trailing the
\* base is kept, with the base (as in \upsilon_{3}) or after the construct
C2_PrescriptForm ==
    (pc = "normalized" /\ parts \in PrescriptInputs /\ BaseOf(parts) # GROUPX)
        => out1 \in { PrescriptHead(parts)
                          \o Braced(BaseOf(parts) \o TrailingOf(parts)),
                      PrescriptHead(parts)
                          \o Braced(BaseOf(parts)) \o TrailingOf(parts) }

\* a position that lies after start and not after the end of s
Advanced(end, start, s) == start < end /\ end <= Len(s)

\* every reader, at every start position of s, returns null or advances
ReadersAdvance(s) ==
    \A start \in 0..Len(s) :
        /\ \A r \in {readGroup(s, start)} : r.ok => Advanced(r.end, start, s)
        /\ \A r \in {readScript(s, start)} : r.ok => Advanced(r.end, start, s)
        /\ \A r \in {matchLeftScripts(s, start)} :
               r.ok => Advanced(r.nextIndex, start, s)
        /\ \A r \in {readBaseToken(s, start)} :
               r.ok => Advanced(r.end, start, s)
        /\ \A r \in {detectDerivativeCommand(s, start)} :
               r.ok => Advanced(r.nextIndex, start, s)
        /\ \A r \in {readDerivativeTarget(s, start)} :
               r.ok => Advanced(r.end, start, s)

\* C3: at every start position of the input, and of the string each scan
\* loop starts on, each of readGroup, readScript, matchLeftScripts,
\* readBaseToken, detectDerivativeCommand and readDerivativeTarget returns
\* null or a position greater than start and not greater than the length
C3_ReadersProgress ==
    /\ pc = "start" => ReadersAdvance(latex)
    /\ (pc \in {"left", "deriv"} /\ index = 0) => ReadersAdvance(src)

\* a left-script match and its base have been read and the scan has moved on
C3_Witness ==
    /\ pc = "left"
    /\ index > 0
    /\ matchLeftScripts(src, 0).ok
    /\ readBaseToken(src, matchLeftScripts(src, 0).nextIndex).ok
    /\ readGroup(src, 0).ok

\* every iteration of either scan loop moves index forward, within the string
C4_IndexAdvances ==
    [][(pc \in {"left", "deriv"} /\ pc' = pc)
           => (index < index' /\ index' <= Len(src))]_vars

\* normalizeLatex returns
C4_Returns == <>(pc = "normalized")

\* C4: the scan of rewriteLeftScripts and the scan of normalizeDerivatives
\* both terminate, the index growing in every iteration of either loop
C4_ScansTerminate == C4_IndexAdvances /\ C4_Returns

\* both scans ran to their end on an input that one of them rewrote
C4_Witness == pc = "normalized" /\ passes = 3 /\ out1 # latex

\* C5: normalizeLatex returns a string for every input; for empty or absent
\* input it returns the empty string without running a pass, isDisplayLatex
\* returns false, and convertLatexToMathML returns the empty string without
\* a call of the compiler
C5_TotalEmptyPreserving ==
    /\ pc = "start" => normalizeLatexCall(absent, latex).out \in Seq(STRING)
    /\ pc = "normalized" => out1 \in Seq(STRING)
    /\ (absent \/ latex = <<>>) =>
           /\ pc = "normalized" => (out1 = <<>> /\ passes = 0)
           /\ pc = "classified" => display = FALSE
           /\ pc = "converted" => (mml.out = <<>> /\ mml.calls = 0)

\* convertLatexToMathML has returned for an absent input
C5_Witness == absent /\ pc = "converted" /\ mml.out = <<>>

\* a character that ends a base: a letter (of a name or a command name), a
\* digit or a closing brace
IsBaseEnd(c) == IsLetter(c) \/ c \in Digits \/ c = "}"

Occurs(s, p) == \E i \in 0..(Len(s) - 1) : StartsWith(s, p, i)

\* no empty-base marker, every script indicator right after its base, and
\* no command of the cleaner or of the derivative rewriter
Ordinary(s) ==
    /\ ~Occurs(s, MARKER)
    /\ \A i \in 0..(Len(s) - 1) :
           At(s, i) \in {"_", "^"} => (i > 0 /\ IsBaseEnd(At(s, i - 1)))
    /\ \A cmd \in {LIMITS, BM, TEXT, DOT, DDOT} : ~Occurs(s, cmd)

\* C6: an input without the marker {}, in which every _ and ^ immediately
\* follows its base and which holds no command of the cleaner or of the
\* derivative rewriter, is returned by normalizeLatex character for character
C6_TrailingScriptsUnchanged ==
    (pc = "normalized" /\ Ordinary(latex)) => out1 = latex

\* normalizeLatex has returned for an ordinary input with trailing scripts
C6_Witness ==
    /\ pc = "normalized"
    /\ Ordinary(latex)
    /\ Occurs(latex, <<"x", "_">>)
    /\ Occurs(latex, <<"}", "^">>)

\* the six bases of the skip list
SkipList == {LEFT, RIGHT, BIG, BIGU, BIGG, BIGGU}

\* the command name found where the base of a match is looked for, or <<>>
BaseName(s, cursor) ==
    IF CommandEnd(s, cursor) < 0 THEN <<>>
    ELSE Slice(s, cursor, CommandEnd(s, cursor))

\* a left-script match at i whose base is one of the six
SkipListedAt(s, i) ==
    \E match \in {matchLeftScripts(s, i)} :
        /\ match.ok
        /\ BaseName(s, SkipSpace(s, match.nextIndex)) \in SkipList

\* the iteration at a match with a skip-listed base appends the text from the
\* start of the match to the new index, which is past the base
C7_SkipCopied ==
    [][(pc = "left" /\ index < Len(src) /\ SkipListedAt(src, index))
           => /\ pc' = "left"
              /\ result' = result \o Slice(src, index, index')
              /\ index' >= CommandEnd(src,
                     SkipSpace(src, matchLeftScripts(src, index).nextIndex))
              /\ index' <= Len(src)]_vars

SkipScenario == <<MARKER, SUB3, SUP0, LEFT, <<"(">>, <<"x">>, RIGHT, <<")">>>>

\* {}_{3}^{0}\left(x\right) is returned as it is
C7_ScenarioUnchanged ==
    [](pc = "normalized" /\ parts = SkipScenario => out1 = latex)

\* C7: a left-script match followed by \left, \right, \big, \Big, \bigg or
\* \Bigg emits no \prescript: the text from the start of the match to the
\* end of the base is copied unchanged and the scan resumes after the base,
\* so {}_{3}^{0}\left(x\right) keeps \left(x\right) literal
C7_SkipListRespected == C7_SkipCopied /\ C7_ScenarioUnchanged

\* the scan has just skipped the match before \left of the scenario
C7_Witness ==
    /\ pc = "left"
    /\ branch = "skip"
    /\ parts = SkipScenario
    /\ result = Slice(src, 0, index)
    /\ EndsWith(result, LEFT)

Glyph(cmd) == IF cmd = DOT THEN DOTGLYPH ELSE DDOTGLYPH

\* \overset{glyph}{T} for the command cmd and the target T
Overlay(cmd, target) ==
    OVERSET \o Braced(<<Glyph(cmd)>>)
        \o (IF target = GROUPX THEN GROUPX ELSE Braced(target))

\* C8: \dot followed by a target T becomes \overset{U+02D9}{T} and \ddot
\* followed by T becomes \overset{U+00A8}{T}, but only when the character
\* after the command name is not a letter: \dots and \ddots are untouched
C8_DerivativeMapping ==
    pc = "normalized" =>
        /\ (/\ Len(parts) = 2
            /\ parts[1] \in {DOT, DDOT}
            /\ parts[2] \in {GROUPX, <<"1">>, ALPHA})
               => out1 = Overlay(parts[1], parts[2])
        /\ (/\ Len(parts) = 3
            /\ parts[1] \in {DOT, DDOT}
            /\ parts[2] = <<" ">>
            /\ parts[3] \in {GROUPX, <<"1">>, ALPHA, <<"s">>})
               => out1 = Overlay(parts[1], parts[3])
        /\ (/\ Len(parts) = 2
            /\ parts[1] \in {DOT, DDOT}
            /\ parts[2] = <<"s">>)
               => out1 = latex

\* normalizeLatex has returned for \ddot{x}
C8_Witness ==
    /\ pc = "normalized"
    /\ parts = <<DDOT, GROUPX>>
    /\ Occurs(out1, <<DDOTGLYPH>>)

\* what may follow a lead-in or a derivative command and cannot be read: an
\* unterminated group, a backslash without a letter, a lone script indicator
Malformed == {<<"{">>, <<"\\">>, <<"_">>}

\* C9: a left-script lead-in or a derivative command followed by a malformed
\* construct is emitted as it is, none of its characters moved into a
\* \prescript or \overset construct
C9_MalformedPassedThrough ==
    (/\ pc = "normalized"
     /\ Len(parts) = 2
     /\ parts[1] \in {DOT, DDOT, <<"_">>}
     /\ parts[2] \in Malformed)
        => out1 = latex

\* no whitespace at either end and no two whitespace characters in a row
Tidy(content) ==
    /\ content # <<>> => (~IsSpace(Head(content)) /\ ~IsSpace(content[Len(content)]))
    /\ \A i \in 1..(Len(content) - 1) :
           ~(IsSpace(content[i]) /\ IsSpace(content[i + 1]))

\* the positions of s where a \text block with a closed argument starts
TextBlocks(s) ==
    {k \in 0..(Len(s) - 1) :
        StartsWith(s, TEXT, k) /\ readGroup(s, SkipSpace(s, k + Len(TEXT))).ok}

\* C10: the argument of every \text block of the normalized output has no
\* whitespace at its ends and no run of two or more whitespace characters,
\* and no block of the input is deleted
C10_TextWhitespace ==
    pc = "normalized" =>
        /\ \A k \in TextBlocks(out1) :
               Tidy(readGroup(out1, SkipSpace(out1, k + Len(TEXT))).content)
        /\ Cardinality(TextBlocks(out1)) >= Cardinality(TextBlocks(latex))

\* C11: for every non-blank input convertLatexToMathML calls the compiler
\* exactly once; when the compiler throws or leaves no root it returns the
\* empty string, otherwise postProcessMathML of the serialized tree; no
\* exception reaches the caller
C11_ConvertNeverRaises ==
    (pc = "converted" /\ ~absent /\ Trim(latex) # <<>>) =>
        /\ mml.calls = 1
        /\ ~mml.raised
        /\ mml.outcome \in {"throws", "noroot"} => mml.out = <<>>
        /\ mml.outcome = "tree" => mml.out = postProcessMathML(mml.raw)

\* the compiler threw on a non-blank input and the call returned ''
C11_Witness ==
    /\ pc = "converted"
    /\ Trim(latex) # <<>>
    /\ mml.outcome = "throws"
    /\ mml.calls = 1
    /\ mml.out = <<>>

\* the number of occurrences of p in s
CountOf(s, p) == Cardinality({i \in 0..(Len(s) - 1) : StartsWith(s, p, i)})

\* the root tag of markup that starts with one: up to its closing >
RootTag(s) == Slice(s, 0, FindChar(s, ">", 0) + 1)

HasMathRoot(s) ==
    /\ StartsWith(s, MATH_OPEN, 0)
    /\ At(s, Len(MATH_OPEN)) \in {" ", ">"}
    /\ FindChar(s, ">", 0) >= 0

OneNamespace(tag) == CountOf(tag, XMLNS_EQ) = 1 /\ CountOf(tag, XMLNS_ATTR) = 1

\* C12: whenever the compiler's output has a <math ...> root, the root tag of
\* the postprocessed markup carries exactly one MathML namespace attribute,
\* injected right after <math when the root declared none and left where it
\* was otherwise; postprocessing the result again leaves the root tag as it is
C12_OneNamespace ==
    (pc = "converted" /\ mml.outcome = "tree" /\ HasMathRoot(mml.raw)) =>
        /\ HasMathRoot(mml.out)
        /\ OneNamespace(RootTag(mml.out))
        /\ CountOf(RootTag(mml.raw), XMLNS_EQ) = 0 =>
               StartsWith(mml.out, MATH_OPEN \o XMLNS_ATTR, 0)
        /\ CountOf(RootTag(mml.raw), XMLNS_EQ) = 1 =>
               RootTag(mml.out) = stripUnsupportedAttributes(RootTag(mml.raw))
        /\ RootTag(postProcessMathML(mml.out)) = RootTag(mml.out)

\* a root that declared no namespace and other attributes got the attribute
C12_Witness ==
    /\ pc = "converted"
    /\ mml.outcome = "tree"
    /\ HasMathRoot(mml.raw)
    /\ CountOf(RootTag(mml.raw), XMLNS_EQ) = 0
    /\ StartsWith(mml.raw, MATH_OPEN \o CLASS_M, 0)
    /\ OneNamespace(RootTag(mml.out))

\* the attributes of a <mover> after accent marking: accent="true" added
\* when its content holds a dot operator and it declared no accent
Marked(attrs, holdsDot) ==
    IF holdsDot /\ ~Occurs(attrs, ACCENT) THEN attrs \o ACCENT_TRUE ELSE attrs

IsDot(glyph) == glyph \in DotGlyphs

\* the markup a case must become; the content of an outer <mover> is read
\* either as its own operator only or as all it encloses
MarkedMarkup(c) ==
    IF c.kind = "nested"
    THEN {MoverMarkup(c.kind, Marked(c.attrs, outerDot), c.glyph,
                      Marked(c.attrs2, IsDot(c.glyph2)), c.glyph2) :
              outerDot \in {IsDot(c.glyph), IsDot(c.glyph) \/ IsDot(c.glyph2)}}
    ELSE {MoverMarkup(c.kind, Marked(c.attrs, IsDot(c.glyph)), c.glyph,
                      Marked(c.attrs2, IsDot(c.glyph2)), c.glyph2)}

AccentsMarked(kinds) ==
    (pc = "converted" /\ mml.outcome = "tree") =>
        \A c \in MoverCases :
            (c.kind \in kinds /\ mml.raw = MoverMarkup(c.kind, c.attrs, c.glyph,
                                                       c.attrs2, c.glyph2))
                => mml.out \in MarkedMarkup(c)

\* C13: every <mover> whose content holds an <mo> with a dot or double-dot
\* glyph and which declared no accent gets accent="true", alone, next to
\* another <mover> or inside one; every other <mover> is left unchanged
C13_AccentMarking == AccentsMarked({"single", "siblings", "nested"})

\* the starts of the spans open ... close of s: an opener with a closer
\* somewhere after it
SpanStarts(s, open, close) ==
    {i \in 0..(Len(s) - 1) :
         /\ StartsWith(s, open, i)
         /\ \E j \in (i + Len(open))..(Len(s) - 1) : StartsWith(s, close, j)}

\* the interior of the first span of s: from its opener to the nearest closer
FirstInterior(s, open, close) ==
    LET i == FirstOf(SpanStarts(s, open, close))
        j == FirstOf({k \in (i + Len(open))..(Len(s) - 1) :
                          StartsWith(s, close, k)}) IN
    Slice(s, i + Len(open), j)

\* what extractLatex has to return for text whose markdown is stripped
Extracted(cleaned) ==
    IF SpanStarts(cleaned, DOLLARS, DOLLARS) # {}
    THEN Trim(FirstInterior(cleaned, DOLLARS, DOLLARS))
    ELSE IF SpanStarts(cleaned, BRACKET_OPEN, BRACKET_CLOSE) # {}
    THEN Trim(FirstInterior(cleaned, BRACKET_OPEN, BRACKET_CLOSE))
    ELSE Trim(cleaned)

C15_ErrorCodes ==
    /\ srv.responses <= 1
    /\ srv.pc = "done" =>
           /\ srv.responses = 1
           /\ ~srv.file => srv.status = 400
           /\ (srv.upstream # 0 /\ ~IsOk(srv.upstream)) => srv.status = 502
           /\ srv.aborted => srv.status = 504

\* the threshold the documentation gives for the compression
DocumentedThreshold == 2000

\* C16: compressImage resolves the original file for every image whose
\* longer side is at most 2000 px; an image whose longer side exceeds 2000 px
\* is compressed to a longer side of 1600 px, the shorter side scaled by the
\* same ratio, down to the whole pixel
C16_CompressionThreshold ==
    web.pc = "settled" /\ web.outcome # "rejected" =>
        \E long \in {Max(web.width, web.height)} :
        \E short \in {Min(web.width, web.height)} :
            /\ long <= DocumentedThreshold => web.outcome = "original"
            /\ (long > DocumentedThreshold /\ web.outcome = "compressed") =>
                   /\ Max(web.newWidth, web.newHeight) = 1600
                   /\ Min(web.newWidth, web.newHeight) = (short * 1600) \div long

\* C17: whatever the base after a left-script match (a command, a brace
\* group or a single character), a script readBaseToken absorbs after it is
\* part of the returned token as kind{value}, and the base with that script
\* stands in the output of normalizeLatex
C17_BaseScriptsKept ==
    (~absent /\ parts \in PrescriptInputs /\ TrailingOf(parts) # <<>>) =>
        /\ pc = "start" =>
               \E match \in {matchLeftScripts(latex, 0)} :
               \E base \in {readBaseToken(latex, match.nextIndex)} :
                   /\ base.ok
                   /\ base.end = Len(latex) =>
                          base.token = BaseOf(parts) \o TrailingOf(parts)
        /\ pc = "normalized" =>
               Occurs(out1, BaseOf(parts) \o TrailingOf(parts))

\* the characters after which a bare script indicator is a lead-in
LeadInContext == {" ", "\t", "\n", "(", "[", "{", "=", "+", "-"}

\* C18: matchLeftScripts matches at a bare _ or ^ only when the character
\* before it is whitespace, an opening delimiter, =, + or -; after any other
\* character it returns no match
C18_BareLeadInContext ==
    (pc = "start" /\ ~absent) =>
        \A p \in 1..(Len(latex) - 1) :
            (At(latex, p) \in {"_", "^"} /\ At(latex, p - 1) \notin LeadInContext)
                => ~matchLeftScripts(latex, p).ok

\* the base of a BaseInputs input is a command other than the six
OffSkipList(base) ==
    /\ Head(base) = "\\"
    /\ Slice(base, 0, CommandEnd(base, 0)) \notin SkipList

\* C19: a left-script match is left as it is only when the command that
\* forms its base is \left, \right, \big, \Big, \bigg or \Bigg; before any
\* other command, a brace group or a single character it is rewritten into
\* \hspace{0pt}\prescript
C19_SkipListExact ==
    (pc = "normalized" /\ ~absent /\ parts \in BaseInputs) =>
        IF Head(parts[3]) # "\\" \/ OffSkipList(parts[3])
        THEN StartsWith(out1, HSPACE0 \o PRESCRIPT, 0)
        ELSE out1 = latex

\* the command \limits at position i: the name and no letter after it
LimitsCommandAt(s, i) ==
    StartsWith(s, LIMITS, i) /\ ~IsLetter(At(s, i + Len(LIMITS)))

\* C20: the output of normalizeLatex holds no \limits command, whatever
\* followed the command in the input: _, ^, a brace, a digit, whitespace or
\* the end of the string
C20_LimitsRemoved ==
    (pc = "normalized" /\ ~absent) =>
        \A i \in 0..(Len(out1) - 1) : ~LimitsCommandAt(out1, i)

\* C21: whether the target of a derivative command is a brace group, a
\* command with an optional group or a single character, readDerivativeTarget
\* returns the target with the script attached to it and an end after the
\* script, and the script stands inside the second argument of \overset
C21_TargetScriptsIncluded ==
    (~absent /\ parts \in TargetInputs) =>
        /\ pc = "start" =>
               \E target \in {readDerivativeTarget(latex, Len(parts[1]))} :
                   /\ target.ok
                   /\ target.end = Len(latex)
                   /\ target.token = parts[2] \o parts[3]
        /\ pc = "normalized" =>
               /\ StartsWith(out1, OVERSET, 0)
               /\ EndsWith(out1, <<"}">>)
               /\ Occurs(out1, parts[2])

\* one of the three substitutions of cleanEnvironments applied to s
Substitute(name, s) ==
    CASE name = "limits" -> RemoveLimits(s, 0)
      [] name = "bold" -> ReplaceBmLetter(ReplaceBmGroup(s, 0), 0)
      [] name = "text" -> ReplaceText(s, 0)

SubstitutionOrders ==
    {o \in [1..3 -> {"limits", "bold", "text"}] :
         \A i, j \in 1..3 : i # j => o[i] # o[j]}

InOrder(o, s) == Substitute(o[3], Substitute(o[2], Substitute(o[1], s)))

\* C22: the three substitutions of the cleaner, applied in any of the six
\* orders, give the string cleanEnvironments gives
C22_CleanerCommutes ==
    (pc = "normalized" /\ ~absent) =>
        \A o \in SubstitutionOrders : InOrder(o, latex) = cleanEnvironments(latex)

\* an element of the given tag starts at k and holds nothing or whitespace
EmptyAt(s, tag, k) ==
    /\ StartsWith(s, OpenTag(tag), k)
    /\ At(s, k + Len(OpenTag(tag))) \in {">", " "}
    /\ \E gt \in {FindChar(s, ">", k)} :
           gt >= 0 /\ StartsWith(s, CloseTag(tag), SkipSpace(s, gt + 1))

\* C23: the postprocessed markup holds no <mrow> and no <mtd> that is empty
\* or holds only whitespace, also where the element became empty by the
\* removal of its empty children; every empty <mtext> is replaced by
\* <mtext>&#x200B;</mtext>, so no <mtext> is empty and none is removed
C23_NoEmptyNodes ==
    (pc = "converted" /\ mml.outcome = "tree") =>
        /\ \A k \in 0..(Len(mml.out) - 1) :
               /\ ~EmptyAt(mml.out, "mrow", k)
               /\ ~EmptyAt(mml.out, "mtd", k)
               /\ ~EmptyAt(mml.out, "mtext", k)
        /\ CountOf(mml.out, MTEXT_CLOSE) = CountOf(mml.raw, MTEXT_CLOSE)

\* what readScript has to return at the indicator at start, the value
\* beginning at cursor: null when the string ends there or the group is not
\* closed; else the interior of the group, the command name, or the
\* character.  A backslash that ends the string may be read either way
ScriptAsSpecified(s, start, cursor, r) ==
    IF cursor >= Len(s) THEN ~r.ok
    ELSE IF At(s, cursor) = "{" THEN
        \E group \in {readGroup(s, cursor)} :
            IF group.ok
            THEN r.ok /\ r.value = group.content /\ r.end = group.end
            ELSE ~r.ok
    ELSE IF At(s, cursor) = "\\" /\ IsLetter(At(s, cursor + 1)) THEN
        /\ r.ok
        /\ r.value = Slice(s, cursor, SkipLetters(s, cursor + 1))
        /\ r.end = SkipLetters(s, cursor + 1)
    ELSE IF At(s, cursor) = "\\" /\ cursor + 1 >= Len(s) THEN
        r.ok => (r.value = <<"\\">> /\ r.end = cursor + 1)
    ELSE r.ok /\ r.value = <<At(s, cursor)>> /\ r.end = cursor + 1

\* C24: at a _ or ^ readScript skips whitespace and returns the interior of
\* the brace group, the whole command name, or else the single next
\* character, with end just past it; it fails only when the string ends
\* before a value or the group is unterminated
C24_ScriptReaderResult ==
    (pc = "start" /\ ~absent) =>
        \A start \in 0..(Len(latex) - 1) :
            At(latex, start) \in {"_", "^"} =>
                \E r \in {readScript(latex, start)} :
                    /\ r.ok => r.type = At(latex, start)
                    /\ ScriptAsSpecified(latex, start,
                                         SkipSpace(latex, start + 1), r)

\* position k of s is skipped as the character after a backslash, in a
\* reading that starts at from
RECURSIVE Escaped(_, _, _)
Escaped(s, from, k) ==
    k > from /\ At(s, k - 1) = "\\" /\ ~Escaped(s, from, k - 1)

\* the braces open after position k, in a reading that starts at from
DepthAfter(s, from, k) ==
    Cardinality({j \in from..k : At(s, j) = "{" /\ ~Escaped(s, from, j)})
        - Cardinality({j \in from..k : At(s, j) = "}" /\ ~Escaped(s, from, j)})

\* the unescaped closing braces after i that bring the depth back to zero
Closers(s, i) ==
    {k \in (i + 1)..(Len(s) - 1) :
         /\ At(s, k) = "}"
         /\ ~Escaped(s, i, k)
         /\ DepthAfter(s, i, k) = 0}

\* every closing brace of s has its opening brace before it, and none is open
\* at the end
Balanced(s) ==
    /\ \A k \in 0..(Len(s) - 1) : DepthAfter(s, 0, k) >= 0
    /\ s # <<>> => DepthAfter(s, 0, Len(s) - 1) = 0

GroupAsSpecified(s, i, r) ==
    IF At(s, i) = "{" /\ Closers(s, i) # {}
    THEN /\ r.ok
         /\ r.end - 1 = FirstOf(Closers(s, i))
         /\ r.content = Slice(s, i + 1, r.end - 1)
         /\ Balanced(r.content)
    ELSE ~r.ok

\* C25: readGroup(s, i) returns a group exactly when s[i] is { and an
\* unescaped } brings the depth back to zero, a backslash always skipping
\* the next character; end - 1 is the first such }, content is what stands
\* between the two braces and is itself balanced; otherwise it returns null
C25_GroupReaderResult ==
    /\ (pc = "start" /\ ~absent) =>
           \A i \in 0..Len(latex) :
               GroupAsSpecified(latex, i, readGroup(latex, i))
    /\ (pc = "left" /\ index = 0) =>
           \A i \in 0..Len(src) : GroupAsSpecified(src, i, readGroup(src, i))

\* the scan has started on a string with a group whose content holds an
\* escaped brace
C25_Witness ==
    /\ pc = "left"
    /\ index = 0
    /\ \E i \in 0..Len(src) :
       \E r \in {readGroup(src, i)} :
           /\ r.ok
           /\ \E k \in (i + 1)..(r.end - 2) :
                  At(src, k) \in {"{", "}"} /\ Escaped(src, i, k)

\* C26: for every LaTeX string the front end makes the choice of
\* isDisplayLatex: the display flag of its fallback conversion equals it, and
\* the delimiters it renders with are the display brackets exactly when it
\* is true
C26_DisplayConsistent ==
    (pc = "classified" /\ ~absent /\ latex # <<>>) =>
        /\ fallbackIsDisplay(latex) = display
        /\ (renderDelimiters(latex) = <<BRACKET_OPEN, BRACKET_CLOSE>>) = display

\* C27: when the braces of the input are balanced under the rule of
\* readGroup, so are the braces of what normalizeLatex returns
C27_BalancePreserved ==
    (pc = "normalized" /\ ~absent /\ Balanced(latex)) => Balanced(out1)

\* the group read at position k of s is a whole group whose content is the
\* value, or the value without the braces it already had
HoldsWhole(s, k, value) ==
    \E group \in {readGroup(s, k)} :
        /\ group.ok
        /\ Balanced(group.content)
        /\ \/ group.content = value
           \/ <<"{">> \o group.content \o <<"}">> = value

EndOfGroup(s, k) ==
    Sole({IF group.ok THEN group.end ELSE Len(s) :
              group \in {readGroup(s, k)}})

\* C28: the \prescript that rewriteLeftScripts emits is followed by exactly
\* three brace groups that hold the whole superscript value, the whole
\* subscript value and the whole base token, and the \overset{glyph} that
\* normalizeDerivatives emits is followed by exactly one group that holds
\* the whole target
C28_ArgumentsWellFormed ==
    /\ (pc = "normalized" /\ parts \in PrescriptArgInputs) =>
           /\ StartsWith(out1, HSPACE0 \o PRESCRIPT, 0)
           /\ \E sup \in {Len(HSPACE0 \o PRESCRIPT)} :
              \E sub \in {EndOfGroup(out1, sup)} :
              \E base \in {EndOfGroup(out1, sub)} :
                  /\ HoldsWhole(out1, sup, parts[6])
                  /\ HoldsWhole(out1, sub, parts[3])
                  /\ HoldsWhole(out1, base, parts[8])
                  /\ EndOfGroup(out1, base) = Len(out1)
    /\ (pc = "normalized" /\ parts \in OversetArgInputs) =>
           /\ StartsWith(out1, OVERSET, 0)
           /\ \E glyph \in {Len(OVERSET)} :
              \E target \in {EndOfGroup(out1, glyph)} :
                  /\ readGroup(out1, glyph).ok
                  /\ HoldsWhole(out1, target, parts[3])
                  /\ EndOfGroup(out1, target) = Len(out1)

\* C29: the response of an earlier recognition never overwrites the state
\* of a later one: with no request in flight, the result or the recognition
\* error on display is that of the recognition started last; and loading is
\* true while a request is in flight
C29_NoStaleResult ==
    /\ ui.inFlight # {} => ui.loading
    /\ ui.inFlight = {} =>
           /\ ui.result # 0 => ui.result = ui.started
           /\ ui.error.kind = "failed" => ui.error.request = ui.started

\* what the response of the request is made of
Response == <<srv.status, srv.responses, srv.content, srv.latex, srv.error>>

\* C30: a request that reaches the handler with a file has the deletion of
\* the temporary file attempted exactly once, after the upstream call has
\* finished however it ended; the deletion, failing or not, leaves the
\* response as it was; and the timer of the upstream call is cleared once
\* the call has finished
C30_CleanupOnce ==
    /\ [](srv.unlinks <= 1)
    /\ [](srv.unlinks = 1 => (srv.file /\ srv.pc \in {"catch", "done"}))
    /\ [](srv.pc \in {"handler", "upstream", "reply"} => srv.unlinks = 0)
    /\ []((srv.pc = "handler" /\ srv.file) => <>(srv.unlinks = 1))
    /\ []((srv.pc = "done" /\ srv.file) => srv.unlinks = 1)
    /\ [][srv.pc = "finally" => Response' = Response]_vars
    /\ []((srv.pc = "done" /\ srv.file) =>
             srv.status = IF srv.error.thrown
                          THEN ErrorStatus(srv.error.message) ELSE 200)
    /\ [](srv.pc \in {"reply", "finally", "catch", "done"} =>
             srv.timer # "armed")
    /\ [](srv.timer = "armed" <=> srv.pc = "upstream")

\* the upstream call timed out, the deletion failed, and the answer is 504
C30_Witness ==
    /\ srv.pc = "done"
    /\ srv.file
    /\ srv.aborted
    /\ srv.timer = "cleared"
    /\ srv.unlinks = 1
    /\ srv.unlinkFailed
    /\ srv.status = 504

=============================================================================
